---- MODULE Spec2Model ----
(***************************************************************************)
(* The JNI stub generator of compiler/jni/quick/jni_compiler.cc            *)
(* (ArtJniCompileMethodInternal) as a state machine.                       *)
(*                                                                         *)
(* One compile is one behaviour: Init draws the compile request (access    *)
(* flags, shorty, build configuration, the answers of the calling          *)
(* conventions), and one action per numbered section of the source emits   *)
(* that section's macro-assembler operations into `script`.  After         *)
(* Finalize the emitted stub can be executed: the Exec* actions walk       *)
(* `script` operation by operation, taking every branch both ways.         *)
(***************************************************************************)
EXTENDS Integers, Sequences, FiniteSets, TLC

VARIABLES
    in,                    \* the compile request and the conventions' answers
    pc,                    \* the emitter's position in the source
    script,                \* the operations emitted so far
    current_frame_size,    \* the local of that name
    current_out_arg_size,  \* the local of that name
    method_register,       \* the local of that name, "NoRegister" when empty
    return_save_location,  \* the local of that name
    cfa,                   \* jni_asm->cfi().GetCurrentCFAOffset()
    failure,               \* the CHECK / DCHECK / LOG(FATAL) that ended the compile
    method_reads,          \* value of method_register at each emitted use of it
    cfa_checks,            \* <<line, cfa, current_frame_size>> at each DCHECK_EQ on the CFA
    xpc,                   \* stub execution: index of the next operation, 0 before entry
    xst,                   \* stub execution: "idle", "running" or the kind of exit
    depth,                 \* stub execution: bytes of stack below the caller's frame
    inc_sum,               \* stub execution: sum of executed IncreaseFrameSize amounts
    dec_sum,               \* stub execution: sum of executed DecreaseFrameSize amounts
    pushes,                \* stub execution: executed PushLocalReferenceFrame sequences
    pops,                  \* stub execution: executed PopLocalReferenceFrame sequences
    via,                   \* stub execution: labels of the slow paths entered so far
    stack_top,             \* stub execution: what was done to the thread's top of managed stack
    called,                \* stub execution: entrypoints called so far
    polled,                \* stub execution: the polls and suspend checks executed so far
    check_depth,           \* stub execution: the stack depth at the last SuspendCheck
    world,                 \* stub execution: the JNI environment at entry, and after native code
    jni_env,               \* stub execution: the fields of the thread's JNI environment
    regs                   \* stub execution: the values of the scratch and method registers

vars == <<in, pc, script, current_frame_size, current_out_arg_size, method_register,
          return_save_location, cfa, failure, method_reads, cfa_checks,
          xpc, xst, depth, inc_sum, dec_sum, pushes, pops, via, stack_top, called,
          polled, check_depth, world, jni_env, regs>>

emitVars == <<script, current_frame_size, current_out_arg_size, method_register,
              return_save_location, cfa, method_reads, cfa_checks>>

execVars == <<xpc, xst, depth, inc_sum, dec_sum, pushes, pops, via, stack_top, called,
              polled, check_depth, world, jni_env, regs>>

-----------------------------------------------------------------------------
(* Bounds of the explored compile requests.                                *)

\* Longest parameter list of a shorty (the return type not counted).
MaxParams == 2

\* Largest number of leading native parameters passed in registers.
MaxJniRegArgs == 3

\* Largest number of leading managed arguments passed in registers.
MaxMrRegArgs == 2

\* Out-args areas are 0 .. MaxOutArgUnits stack-alignment units large.
MaxOutArgUnits == 1

\* Stack alignment unit of the out-args area, in bytes.
OutArgUnit == 16

\* Frame size reported by main.FrameSize(), in bytes.
ManagedFrameSize == 64

-----------------------------------------------------------------------------
(* Small helpers.                                                          *)

RECURSIVE SeqsUpTo(_, _)
SeqsUpTo(S, n) ==
    IF n = 0 THEN {<<>>}
    ELSE LET shorter == SeqsUpTo(S, n - 1)
         IN  shorter \cup {Append(s, e) : s \in {t \in shorter : Len(t) = n - 1}, e \in S}

RECURSIVE Concat(_)
Concat(ss) == IF ss = <<>> THEN <<>> ELSE Head(ss) \o Concat(Tail(ss))

Count(s, P(_)) == Cardinality({i \in 1..Len(s) : P(s[i])})

Opt(c, ops) == IF c THEN ops ELSE <<>>

-----------------------------------------------------------------------------
(* The macro assembler's operations, as the records `script` holds.        *)
(* x, y, z are register, label, entrypoint or field names; n is a frame    *)
(* offset or an amount of bytes; m a second frame offset; sz a width in    *)
(* bytes.                                                                  *)

NoRegister == "NoRegister"

Op(o, x, y, z, n, sz) ==
    [op |-> o, x |-> x, y |-> y, z |-> z, n |-> n, m |-> 0, sz |-> sz, args |-> <<>>]

LocReg(r, size) == [reg |-> r, off |-> -1, size |-> size]
LocStack(off, size) == [reg |-> "", off |-> off, size |-> size]

\* One element of the three parallel vectors handed to MoveArguments.
Arg(dest, src, ref) == [dest |-> dest, src |-> src, ref |-> ref]

BuildFrame(size, method_reg) == Op("BuildFrame", method_reg, "", "", size, 0)
RemoveFrame(size, may_suspend) ==
    Op("RemoveFrame", "", "", IF may_suspend THEN "may_suspend" ELSE "no_suspend", size, 0)
IncreaseFrameSize(n) == Op("IncreaseFrameSize", "", "", "", n, 0)
DecreaseFrameSize(n) == Op("DecreaseFrameSize", "", "", "", n, 0)
AdjustCFAOffset(d) == Op("AdjustCFAOffset", "", "", "", d, 0)
StoreStackPointerToThread(offs) == Op("StoreStackPointerToThread", "", "", offs, 0, 0)
LoadRawPtrFromThread(dst, offs) == Op("LoadRawPtrFromThread", dst, "", offs, 0, 0)
MoveArguments(entries) ==
    [Op("MoveArguments", "", "", "", 0, 0) EXCEPT !.args = entries]
Move(dst, src, size) == Op("Move", dst, src, "", 0, size)
LoadFrame(dst, off, size) == Op("Load", dst, "SP", "", off, size)
LoadMember(dst, base, member, size) == Op("Load", dst, base, member, 0, size)
StoreFrame(off, src, size) == Op("Store", "SP", src, "", off, size)
StoreMember(base, member, src, size) == Op("Store", base, src, member, 0, size)
StoreRawPtr(off, src) == Op("StoreRawPtr", "SP", src, "", off, 0)
Copy(dstoff, srcoff, size) == [Op("Copy", "SP", "SP", "", dstoff, size) EXCEPT !.m = srcoff]
NullAllowed(null_allowed) == IF null_allowed THEN "null_allowed" ELSE "null_not_allowed"
CreateJObjectStack(out_off, spilled_off, null_allowed) ==
    [Op("CreateJObject", "SP", "", NullAllowed(null_allowed), out_off, 0)
        EXCEPT !.m = spilled_off]
CreateJObjectReg(out_reg, spilled_off, null_allowed) ==
    [Op("CreateJObject", out_reg, "", NullAllowed(null_allowed), 0, 0)
        EXCEPT !.m = spilled_off]
GetCurrentThreadReg(dst) == Op("GetCurrentThread", dst, "", "", 0, 0)
GetCurrentThreadStack(off) == Op("GetCurrentThread", "SP", "", "", off, 0)
Call(base, offs) == Op("Call", base, "", offs, 0, 0)
CallFromThread(offs) == Op("CallFromThread", "", "", offs, 0, 0)
JumpReg(base, offs) == Op("Jump", base, "", offs, 0, 0)
Jump(label) == Op("Jump", "", "", label, 0, 0)
Bind(label) == Op("Bind", "", "", label, 0, 0)
ExceptionPoll(label) == Op("ExceptionPoll", "", "", label, 0, 0)
SuspendCheck(label) == Op("SuspendCheck", "", "", label, 0, 0)
TestGcMarking(label) == Op("TestGcMarking", "", "NotZero", label, 0, 0)
TestMarkBit(reg, label) == Op("TestMarkBit", reg, "NotZero", label, 0, 0)
SignExtend(reg, size) == Op("SignExtend", reg, "", "", 0, size)
ZeroExtend(reg, size) == Op("ZeroExtend", reg, "", "", 0, size)
DeliverPendingException == Op("DeliverPendingException", "", "", "", 0, 0)

-----------------------------------------------------------------------------
(* The compile request.  `in` holds the access-flag bits, the shorty, the  *)
(* build configuration and the answers of the calling conventions that     *)
(* the compiler queries.                                                   *)

\* Primitive::GetType(c) == Primitive::kPrimNot
IsReference(c) == c = "L"
IsLongOrDouble(c) == c \in {"J", "D"}

ReturnChar(r) == r.shorty[1]
Params(r) == Tail(r.shorty)
NumParams(r) == Len(r.shorty) - 1

\* main_jni_conv->IsReturnAReference()
reference_return(r) == IsReference(ReturnChar(r))

\* The attribute invariants of a method record.
ValidAttributes(r) ==
    /\ ~(r.is_fast_native /\ r.is_critical_native)
    /\ r.is_critical_native =>
          /\ r.is_static
          /\ ~r.is_synchronized
          /\ \A i \in 1..Len(r.shorty) : ~IsReference(r.shorty[i])

kRawPointerSize(r) == r.ptr
kObjectReferenceSize == 4
kInvalidReferenceOffset == 0
kIRTCookieSize == 4
kUseReadBarrier(r) == r.rb # "off"
kUseBakerReadBarrier(r) == r.rb = "baker"

(* ManagedRuntimeCallingConvention: the method pointer arrives in          *)
(* MethodRegister() and is stored at MethodStackOffset() = 0 of the        *)
(* managed frame; the arguments are `this` (instance methods) and the      *)
(* parameters, the first r.mr_regs of them in registers, each with a       *)
(* 4-byte-slot home in the caller's frame above the method slot.           *)
MrMethodRegister == "mr_method"
MrMethodStackOffset == 0
MrArgRegs == <<"mr_a1", "mr_a2", "mr_a3", "mr_a4">>
MrArgs(r) == IF r.is_static THEN Params(r) ELSE <<"L">> \o Params(r)
MrInReg(r, i) == i <= r.mr_regs
MrRegister(r, i) == MrArgRegs[i]

RECURSIVE MrSlotsBefore(_, _)
MrSlotsBefore(r, i) ==
    IF i <= 1 THEN 0
    ELSE MrSlotsBefore(r, i - 1) + (IF IsLongOrDouble(MrArgs(r)[i - 1]) THEN 2 ELSE 1)

\* mr_conv->CurrentParamStackOffset() after ResetIterator(FrameOffset(displacement))
MrStackOffset(r, displacement, i) ==
    displacement + kRawPointerSize(r) + 4 * MrSlotsBefore(r, i)

\* Index in MrArgs of the k-th parameter of the shorty.
MrIndexOfParam(r, k) == IF r.is_static THEN k ELSE k + 1

(* JniCallingConvention: the native parameters are JNIEnv* and             *)
(* jclass/jobject (absent for @CriticalNative) followed by the shorty's    *)
(* parameters; the first r.jni_regs of them are in registers, the others   *)
(* in pointer-size slots at the bottom of the out-args area.               *)
JniArgRegs == <<"jni_a1", "jni_a2", "jni_a3", "jni_a4", "jni_a5", "jni_a6">>
NumberOfExtraArgumentsForJni(r) == IF r.is_critical_native THEN 0 ELSE 2
JniNumArgs(r, shorty) == NumberOfExtraArgumentsForJni(r) + Len(shorty) - 1
JniInReg(r, pos) == pos <= r.jni_regs
JniRegister(r, pos) == JniArgRegs[pos]
JniStackOffset(r, pos) == (pos - r.jni_regs - 1) * kRawPointerSize(r)
JniLoc(r, pos, size) ==
    IF JniInReg(r, pos) THEN LocReg(JniRegister(r, pos), size)
    ELSE LocStack(JniStackOffset(r, pos), size)
\* Position in `main` of the k-th parameter of the shorty.
MainPosOfParam(r, k) == NumberOfExtraArgumentsForJni(r) + k

HiddenArgumentRegister == "hidden_arg"
CalleeSaveScratchRegisters == <<"scratch0", "scratch1", "scratch2">>

SizeOfReturnValue(r) ==
    CASE ReturnChar(r) = "V" -> 0
      [] ReturnChar(r) \in {"J", "D"} -> 8
      [] ReturnChar(r) = "L" -> kRawPointerSize(r)
      [] OTHER -> 4
MrSizeOfReturnValue(r) ==
    CASE ReturnChar(r) = "V" -> 0
      [] ReturnChar(r) \in {"J", "D"} -> 8
      [] OTHER -> 4
JniReturnRegister(r) == IF ReturnChar(r) = "V" THEN NoRegister ELSE "ret0"
MrReturnRegister(r) ==
    IF ReturnChar(r) = "V" THEN NoRegister
    ELSE IF r.softfloat /\ ReturnChar(r) \in {"F", "D"} THEN "fp_ret0" ELSE "ret0"
HasSmallReturnType(r) == ReturnChar(r) \in {"Z", "B", "C", "S"}
\* The answer of the convention; ConventionAnswers ties it to the return type.
RequiresSmallResultTypeExtension(r) == r.small_ext
ComponentSize(c) == IF c \in {"Z", "B"} THEN 1 ELSE 2
SpillsReturnValue(r) ==
    ~r.is_fast_native /\ ~r.is_critical_native /\ SizeOfReturnValue(r) # 0
\* main_jni_conv->ReturnValueSaveLocation(): the slot after the method pointer.
ReturnValueSaveLocation(r, displacement) == displacement + kRawPointerSize(r)
UseTailCall(r) == r.tail_call

\* A faulty variant of EndShorty that gives `end` no parameter for the unlock
\* object; C32 tells the two apart.
EndShortyNoLock(r) == IF reference_return(r) THEN <<"I">> ELSE <<"V">>

\* jni_end_shorty
EndShorty(r) ==
    IF reference_return(r) /\ r.is_synchronized THEN <<"I", "L">>
    ELSE IF reference_return(r) THEN <<"I">>
    ELSE <<"V">>

-----------------------------------------------------------------------------
(* Initial states: one per compile request.                                *)

OutArgSizes == {u * OutArgUnit : u \in 0..MaxOutArgUnits}

\* Constraints among the answers of one calling convention, but for the one
\* that the CHECKs of lines 529 and 568 enforce.
ConventionAnswers(r) ==
    \* UseTailCall() is asked only for @CriticalNative (lines 513, 529, 568, 704).
    /\ r.tail_call => r.is_critical_native
    \* end.OutFrameSize() is asked only for non-critical methods (line 601):
    \* @CriticalNative requests are explored with one value of it.  It never
    \* exceeds main's for @FastNative (line 603).
    /\ r.is_critical_native => r.end_out = r.main_out
    /\ r.is_fast_native => r.end_out <= r.main_out
    /\ r.softfloat => ReturnChar(r) \in {"F", "D"}
    /\ r.small_ext => HasSmallReturnType(r)
    \* kUseReadBarrier is read only under is_static /\ ~is_critical_native
    \* (lines 241, 716): other requests are explored with one value of it.
    /\ r.rb # "off" => r.is_static /\ ~r.is_critical_native

\* The answers of a convention that passes the CHECKs of lines 529 and 568:
\* a tail call leaves nothing to run after the native code.
ConventionConsistent(r) ==
    /\ ConventionAnswers(r)
    /\ r.tail_call =>
          /\ ~RequiresSmallResultTypeExtension(r)
          /\ JniReturnRegister(r) = MrReturnRegister(r)

RequestSpace(shorties, ptrs, jniRegs, mrRegs, mainOuts, endOuts) ==
    [is_native : {TRUE}, is_static : BOOLEAN, is_synchronized : BOOLEAN,
     is_fast_native : BOOLEAN, is_critical_native : BOOLEAN,
     shorty : shorties, debug : BOOLEAN, rb : {"off", "rb", "baker"},
     ptr : ptrs, jni_regs : jniRegs, mr_regs : mrRegs,
     frame_size : {ManagedFrameSize}, main_out : mainOuts, end_out : endOuts,
     tail_call : BOOLEAN, softfloat : BOOLEAN, small_ext : BOOLEAN]

NativeRequests(shorties, ptrs, jniRegs, mrRegs, mainOuts, endOuts) ==
    { r \in RequestSpace(shorties, ptrs, jniRegs, mrRegs, mainOuts, endOuts) :
        ConventionConsistent(r) }

\* Nothing but the native bit of a request is read before CHECK(is_native)
\* (line 123): requests without it are explored with one value of the rest.
NonNativeRequests(native) ==
    LET base == CHOOSE r \in native : ~r.is_critical_native /\ ~r.is_fast_native
    IN  {[base EXCEPT !.is_native = FALSE, !.debug = d] : d \in BOOLEAN}

Requests(shorties, ptrs, jniRegs, mrRegs, mainOuts, endOuts) ==
    LET native == NativeRequests(shorties, ptrs, jniRegs, mrRegs, mainOuts, endOuts)
    IN  native \cup NonNativeRequests(native)

\* The JNI environment of the thread that runs the stub: the local reference
\* cookie and the segment state it holds at entry, and the segment state the
\* native code leaves behind.
MaxCookie == 2
Worlds == [cookie : 0..MaxCookie, segment_state : 0..MaxCookie, native : 0..MaxCookie]
OneWorld == [cookie |-> 0, segment_state |-> 1, native |-> 2]

\* The values of registers and of the fields of the JNI environment.
Word(n) == <<"word", n>>
EnvPointer == <<"pointer", 0>>
Unknown == <<"unknown", 0>>
MethodPointer == <<"method", 0>>

InitOf(requests, worlds) ==
    /\ in \in requests
    /\ pc = "start"
    /\ script = <<>>
    /\ current_frame_size = 0
    /\ current_out_arg_size = 0
    /\ method_register = NoRegister
    /\ return_save_location = 0
    /\ cfa = 0
    /\ failure = ""
    /\ method_reads = <<>>
    /\ cfa_checks = <<>>
    /\ xpc = 0
    /\ xst = "idle"
    /\ depth = 0
    /\ inc_sum = 0
    /\ dec_sum = 0
    /\ pushes = 0
    /\ pops = 0
    /\ via = {}
    /\ stack_top = <<>>
    /\ called = {}
    /\ polled = <<>>
    /\ check_depth = 0
    /\ world \in worlds
    /\ jni_env = [LocalRefCookieOffset |-> Word(world.cookie),
                  SegmentStateOffset |-> Word(world.segment_state)]
    /\ regs = [reg \in {CalleeSaveScratchRegisters[i] : i \in 1..Len(CalleeSaveScratchRegisters)}
                        \cup {MrMethodRegister}
                  |-> IF reg = MrMethodRegister THEN MethodPointer ELSE Unknown]

InitFor(requests) == InitOf(requests, {OneWorld})

ReturnTypes == {"V", "I", "J", "F", "L"}
ParamTypes == {"I", "J", "L"}
Shorties(retTypes, n) == {<<c>> \o ps : c \in retTypes, ps \in SeqsUpTo(ParamTypes, n)}

-----------------------------------------------------------------------------
(* Integer conversions of the frame sizes.  A size_t is kept as its low    *)
(* 32 bits in two 16-bit limbs <<hi, lo>>; the higher bits of a 64-bit     *)
(* size_t do not survive the conversion to int.                            *)

Limb == 65536
SizeLimbs(n) == <<(n \div Limb) % Limb, n % Limb>>
\* Unsigned negation, -n on size_t.
NegLimbs(w) ==
    <<(Limb - 1 - w[1] + (IF w[2] = 0 THEN 1 ELSE 0)) % Limb, (Limb - w[2]) % Limb>>
\* static_cast<int>(size_t), and the implicit conversion of an int parameter.
LimbsToInt(w) ==
    IF w[1] >= Limb \div 2 THEN (w[1] - Limb) * Limb + w[2] ELSE w[1] * Limb + w[2]
SizeToInt(n) == LimbsToInt(SizeLimbs(n))
NegSizeToInt(n) == LimbsToInt(NegLimbs(SizeLimbs(n)))

(* The assembler's CFI bookkeeping: the CFA offset after an operation.     *)
CfaEffect(c, o) ==
    CASE o.op = "BuildFrame" -> o.n
      [] o.op = "IncreaseFrameSize" -> c + o.n
      [] o.op = "DecreaseFrameSize" -> c - o.n
      [] o.op = "AdjustCFAOffset" -> c + o.n
      [] OTHER -> c

RECURSIVE CfaAfter(_, _)
CfaAfter(c, ops) == IF ops = <<>> THEN c ELSE CfaAfter(CfaEffect(c, Head(ops)), Tail(ops))

-----------------------------------------------------------------------------
(* Helpers of the compiler.                                                *)

jni_env_reg == CalleeSaveScratchRegisters[1]
saved_cookie_reg == CalleeSaveScratchRegisters[2]
\* A faulty variant of callee_save_temp that takes the register of the saved
\* cookie; C30 tells the two apart.
callee_save_temp_shared == CalleeSaveScratchRegisters[2]
callee_save_temp == CalleeSaveScratchRegisters[3]

PushLocalReferenceFrame(env, saved_cookie, temp) ==
    << LoadMember(saved_cookie, env, "LocalRefCookieOffset", kIRTCookieSize),
       LoadMember(temp, env, "SegmentStateOffset", kIRTCookieSize),
       StoreMember(env, "LocalRefCookieOffset", temp, kIRTCookieSize) >>

\* A faulty variant of PopLocalReferenceFrame that restores the cookie before
\* it copies it to the segment state; C22 tells the two apart.
PopLocalReferenceFrameRestoreFirst(env, saved_cookie, temp) ==
    << StoreMember(env, "LocalRefCookieOffset", saved_cookie, kIRTCookieSize),
       LoadMember(temp, env, "LocalRefCookieOffset", kIRTCookieSize),
       StoreMember(env, "SegmentStateOffset", temp, kIRTCookieSize) >>

PopLocalReferenceFrame(env, saved_cookie, temp) ==
    << LoadMember(temp, env, "LocalRefCookieOffset", kIRTCookieSize),
       StoreMember(env, "SegmentStateOffset", temp, kIRTCookieSize),
       StoreMember(env, "LocalRefCookieOffset", saved_cookie, kIRTCookieSize) >>

\* SetNativeParameter(jni_asm, jni_conv, in_reg) with jni_conv at position pos.
SetNativeParameter(r, pos, in_reg) ==
    IF ~JniInReg(r, pos) THEN <<StoreRawPtr(JniStackOffset(r, pos), in_reg)>>
    ELSE IF JniRegister(r, pos) # in_reg
         THEN <<Move(JniRegister(r, pos), in_reg, kRawPointerSize(r))>>
         ELSE <<>>

\* A faulty variant of GetJniEntrypointThreadOffset whose end entrypoints
\* overlook the reference return of a synchronized method; C14 tells the two
\* apart.
GetJniEntrypointThreadOffsetNoReference(which, ref_return, synchronized) ==
    IF which = "kStart"
    THEN IF synchronized THEN "pJniMethodStartSynchronized" ELSE "pJniMethodStart"
    ELSE IF synchronized THEN "pJniMethodEndSynchronized"
         ELSE IF ref_return THEN "pJniMethodEndWithReference" ELSE "pJniMethodEnd"

GetJniEntrypointThreadOffset(which, ref_return, synchronized) ==
    IF which = "kStart"
    THEN IF synchronized THEN "pJniMethodStartSynchronized" ELSE "pJniMethodStart"
    ELSE IF ref_return
         THEN IF synchronized THEN "pJniMethodEndWithReferenceSynchronized"
                              ELSE "pJniMethodEndWithReference"
         ELSE IF synchronized THEN "pJniMethodEndSynchronized" ELSE "pJniMethodEnd"

\* GetCurrentThread into the parameter at pos, then the call of a runtime entrypoint.
CallWithThread(r, pos, entrypoint) ==
    IF JniInReg(r, pos)
    THEN <<GetCurrentThreadReg(JniRegister(r, pos)), Call(JniRegister(r, pos), entrypoint)>>
    ELSE <<GetCurrentThreadStack(JniStackOffset(r, pos)), CallFromThread(entrypoint)>>

\* CreateJObject of `this` into the parameter at pos, null not allowed.
CreateJObjectForThis(r, pos, this_offset) ==
    IF ~JniInReg(r, pos) THEN <<CreateJObjectStack(JniStackOffset(r, pos), this_offset, FALSE)>>
    ELSE <<CreateJObjectReg(JniRegister(r, pos), this_offset, FALSE)>>

\* A method is normal native when it calls JniMethodStart.
IsNormalNative(r) == ~r.is_critical_native /\ ~r.is_fast_native

-----------------------------------------------------------------------------
(* The emitter.  Emit appends a section's operations and updates the       *)
(* locals; Fatal ends the compile at a failed CHECK, DCHECK or LOG(FATAL). *)

Emit(next_pc, ops, cfs, coas, mreg, rsl, reads, checks) ==
    /\ pc' = next_pc
    /\ script' = script \o ops
    /\ current_frame_size' = cfs
    /\ current_out_arg_size' = coas
    /\ method_register' = mreg
    /\ return_save_location' = rsl
    /\ cfa' = CfaAfter(cfa, ops)
    /\ method_reads' = method_reads \o reads
    /\ cfa_checks' = cfa_checks \o checks
    /\ UNCHANGED <<in, failure>>
    /\ UNCHANGED execVars

Fatal(check) ==
    /\ pc' = "fatal"
    /\ failure' = check
    /\ UNCHANGED <<in>>
    /\ UNCHANGED emitVars
    /\ UNCHANGED execVars

\* DCHECK_EQ(jni_asm->cfi().GetCurrentCFAOffset(), static_cast<int>(current_frame_size))
CfaCheck(line, c, cfs) == [line |-> line, cfa |-> c, size |-> SizeToInt(cfs)]
CfaCheckFails(r, chk) == r.debug /\ chk.cfa # chk.size

(* Lines 121-177: the access flags and the debug-build validation.         *)

\* A faulty variant of ClassifyFailure without the loop over the shorty of a
\* @CriticalNative method; C9 tells the two apart.
ClassifyFailureNoShorty(r) ==
    CASE ~r.is_native -> "CHECK(is_native)"
      [] r.is_native /\ r.debug /\ r.is_fast_native /\ r.is_critical_native ->
            "LOG(FATAL) both @CriticalNative and @FastNative"
      [] r.is_native /\ r.debug /\ ~r.is_fast_native /\ r.is_critical_native
            /\ ~r.is_static -> "CHECK(is_static)"
      [] r.is_native /\ r.debug /\ ~r.is_fast_native /\ r.is_critical_native
            /\ r.is_static /\ r.is_synchronized -> "CHECK(!is_synchronized)"
      [] OTHER -> ""

\* A faulty variant of ClassifyFailure that looks at the native bit after the
\* debug-build validation; C33 tells the two apart.
ClassifyFailureNativeLast(r) ==
    CASE r.debug /\ r.is_fast_native /\ r.is_critical_native ->
            "LOG(FATAL) both @CriticalNative and @FastNative"
      [] r.debug /\ ~r.is_fast_native /\ r.is_critical_native
            /\ ~r.is_static -> "CHECK(is_static)"
      [] r.debug /\ ~r.is_fast_native /\ r.is_critical_native
            /\ r.is_static /\ r.is_synchronized -> "CHECK(!is_synchronized)"
      [] r.debug /\ ~r.is_fast_native /\ r.is_critical_native
            /\ r.is_static /\ ~r.is_synchronized
            /\ (\E i \in 1..Len(r.shorty) : IsReference(r.shorty[i])) ->
            "CHECK_NE(kPrimNot, GetType(shorty[i]))"
      [] ~r.is_native -> "CHECK(is_native)"
      [] OTHER -> ""

ClassifyFailure(r) ==
    CASE ~r.is_native -> "CHECK(is_native)"
      [] r.is_native /\ r.debug /\ r.is_fast_native /\ r.is_critical_native ->
            "LOG(FATAL) both @CriticalNative and @FastNative"
      [] r.is_native /\ r.debug /\ ~r.is_fast_native /\ r.is_critical_native
            /\ ~r.is_static -> "CHECK(is_static)"
      [] r.is_native /\ r.debug /\ ~r.is_fast_native /\ r.is_critical_native
            /\ r.is_static /\ r.is_synchronized -> "CHECK(!is_synchronized)"
      [] r.is_native /\ r.debug /\ ~r.is_fast_native /\ r.is_critical_native
            /\ r.is_static /\ ~r.is_synchronized
            /\ (\E i \in 1..Len(r.shorty) : IsReference(r.shorty[i])) ->
            "CHECK_NE(kPrimNot, GetType(shorty[i]))"
      [] OTHER -> ""

Classify ==
    /\ pc = "start"
    /\ IF ClassifyFailure(in) # ""
       THEN Fatal(ClassifyFailure(in))
       ELSE /\ pc' = "conventions"
            /\ UNCHANGED <<in, failure>>
            /\ UNCHANGED emitVars
            /\ UNCHANGED execVars

(* Lines 179-221: the arena, the three calling conventions, the assembler. *)
CreateConventions ==
    /\ pc = "conventions"
    /\ pc' = "phase1"
    /\ UNCHANGED <<in, failure>>
    /\ UNCHANGED emitVars
    /\ UNCHANGED execVars

(* Lines 223-258: 1. Build and register the native method frame.           *)

\* A faulty variant of Phase1FrameSize that builds the managed frame for a
\* @CriticalNative method too; C4 tells the two apart.
Phase1FrameSizeManaged(r) == r.frame_size

Phase1FrameSize(r) == IF r.is_critical_native THEN r.main_out ELSE r.frame_size
Phase1MethodRegister(r) == IF r.is_critical_native THEN NoRegister ELSE MrMethodRegister

Phase1ReadBarrierOps(r) ==
    Opt(kUseReadBarrier(r) /\ r.is_static /\ ~r.is_critical_native,
        << TestGcMarking("jclass_read_barrier_slow_path"),
           Bind("jclass_read_barrier_return") >>)

Phase1Ops(r) ==
    <<BuildFrame(Phase1FrameSize(r), Phase1MethodRegister(r))>>
    \o Phase1ReadBarrierOps(r)
    \o Opt(~r.is_critical_native, <<StoreStackPointerToThread("TopOfManagedStackOffset")>>)

Phase1 ==
    /\ pc = "phase1"
    /\ LET cfs == Phase1FrameSize(in)
           chk == CfaCheck(234, CfaAfter(cfa, <<BuildFrame(cfs, Phase1MethodRegister(in))>>), cfs)
       IN  IF CfaCheckFails(in, chk)
           THEN Fatal("DCHECK_EQ(cfa, current_frame_size) line 234")
           ELSE Emit("phase2", Phase1Ops(in), cfs, current_out_arg_size,
                     Phase1MethodRegister(in), return_save_location, <<>>, <<chk>>)

(* Lines 260-328: 2.1 out-args space, 2.2 the spilling argument move.      *)
Phase2_1Ops(r) == Opt(~r.is_critical_native, <<IncreaseFrameSize(r.main_out)>>)

\* A faulty variant of Phase2SpillEntry that spills a reference to its native
\* stack slot at the width of its source; C17 tells the two apart.
Phase2SpillEntryNarrow(r, cfs, k) ==
    LET i == MrIndexOfParam(r, k)
        pos == MainPosOfParam(r, k)
        is_reference == IsReference(Params(r)[k])
        spill_jobject == is_reference /\ ~JniInReg(r, pos)
        src_size == IF ~is_reference /\ IsLongOrDouble(Params(r)[k]) THEN 8 ELSE 4
    IN  Arg(IF JniInReg(r, pos)
               THEN LocStack(MrStackOffset(r, cfs, i), src_size)
               ELSE LocStack(JniStackOffset(r, pos), src_size),
            IF MrInReg(r, i)
               THEN LocReg(MrRegister(r, i), src_size)
               ELSE LocStack(MrStackOffset(r, cfs, i), src_size),
            IF spill_jobject THEN MrStackOffset(r, cfs, i) ELSE kInvalidReferenceOffset)

\* The entry of 2.2 for the k-th parameter of the shorty; the managed iterator
\* was reset at displacement cfs.
Phase2SpillEntry(r, cfs, k) ==
    LET i == MrIndexOfParam(r, k)
        pos == MainPosOfParam(r, k)
        is_reference == IsReference(Params(r)[k])
        spill_jobject == is_reference /\ ~JniInReg(r, pos)
        src_size == IF ~is_reference /\ IsLongOrDouble(Params(r)[k]) THEN 8 ELSE 4
        dest_size == IF spill_jobject THEN kRawPointerSize(r) ELSE src_size
    IN  Arg(IF JniInReg(r, pos)
               THEN LocStack(MrStackOffset(r, cfs, i), dest_size)
               ELSE LocStack(JniStackOffset(r, pos), dest_size),
            IF MrInReg(r, i)
               THEN LocReg(MrRegister(r, i), src_size)
               ELSE LocStack(MrStackOffset(r, cfs, i), src_size),
            IF spill_jobject THEN MrStackOffset(r, cfs, i) ELSE kInvalidReferenceOffset)

Phase2SpillEntries(r, cfs, mreg) ==
    (IF r.is_static
     THEN <<Arg(LocReg(mreg, kRawPointerSize(r)), LocReg(mreg, kRawPointerSize(r)),
                kInvalidReferenceOffset)>>
     ELSE <<Arg(LocStack(MrStackOffset(r, cfs, 1), kObjectReferenceSize),
                IF MrInReg(r, 1)
                   THEN LocReg(MrRegister(r, 1), kObjectReferenceSize)
                   ELSE LocStack(MrStackOffset(r, cfs, 1), kObjectReferenceSize),
                kInvalidReferenceOffset)>>)
    \o [k \in 1..NumParams(r) |-> Phase2SpillEntry(r, cfs, k)]

Phase2 ==
    /\ pc = "phase2"
    /\ LET cfs == IF in.is_critical_native THEN current_frame_size
                  ELSE current_frame_size + in.main_out
           spill == IsNormalNative(in)
       IN  IF in.debug /\ in.is_critical_native /\ in.main_out # current_frame_size
           THEN Fatal("DCHECK_EQ(main_out_arg_size, current_frame_size)")
           ELSE Emit("phase2_3",
                     Phase2_1Ops(in)
                     \o Opt(spill, <<MoveArguments(Phase2SpillEntries(in, cfs, method_register))>>),
                     cfs, in.main_out, method_register, return_save_location,
                     Opt(spill /\ in.is_static, <<method_register>>), <<>>)

(* Lines 330-376: 2.3 the call of JniMethodStart*().                       *)
\* A faulty variant of Phase2_3LockOps that puts the lock object in the second
\* parameter position; C16 tells the two apart.
Phase2_3LockOpsSecond(r, cfs, mreg) ==
    IF ~r.is_synchronized THEN <<>>
    ELSE IF r.is_static THEN SetNativeParameter(r, 2, mreg)
    ELSE CreateJObjectForThis(r, 2, MrStackOffset(r, cfs, 1))

Phase2_3LockOps(r, cfs, mreg) ==
    IF ~r.is_synchronized THEN <<>>
    ELSE IF r.is_static THEN SetNativeParameter(r, 1, mreg)
    ELSE CreateJObjectForThis(r, 1, MrStackOffset(r, cfs, 1))

Phase2_3Ops(r, cfs, mreg) ==
    Phase2_3LockOps(r, cfs, mreg)
    \o CallWithThread(r, IF r.is_synchronized THEN 2 ELSE 1,
                      GetJniEntrypointThreadOffset("kStart", reference_return(r),
                                                   r.is_synchronized))
    \o Opt(r.is_synchronized, <<ExceptionPoll("monitor_enter_exception_slow_path")>>)

\* A faulty variant of Phase2_3MethodRegister that keeps the register over
\* the JniMethodStart call; C6 tells the two apart.
Phase2_3MethodRegisterKept(r, mreg) == mreg

\* Line 372: the JniMethodStart call clobbers the method register.
Phase2_3MethodRegister(r, mreg) == IF IsNormalNative(r) THEN NoRegister ELSE mreg

Phase2_3 ==
    /\ pc = "phase2_3"
    /\ Emit("phase3",
            Opt(IsNormalNative(in), Phase2_3Ops(in, current_frame_size, method_register)),
            current_frame_size, current_out_arg_size,
            Phase2_3MethodRegister(in, method_register), return_save_location,
            Opt(IsNormalNative(in) /\ in.is_synchronized /\ in.is_static, <<method_register>>),
            <<>>)

(* Lines 378-400: 3. Push local reference frame.                           *)

\* A faulty variant of Phase3Ops that pushes the local reference frame before
\* it loads JNIEnv*; C11 tells the two apart.
Phase3OpsPushFirst(r) ==
    Opt(~r.is_critical_native,
        PushLocalReferenceFrame(jni_env_reg, saved_cookie_reg, callee_save_temp)
        \o <<LoadRawPtrFromThread(jni_env_reg, "JniEnvOffset")>>)

Phase3Ops(r) ==
    Opt(~r.is_critical_native,
        <<LoadRawPtrFromThread(jni_env_reg, "JniEnvOffset")>>
        \o PushLocalReferenceFrame(jni_env_reg, saved_cookie_reg, callee_save_temp))

Phase3 ==
    /\ pc = "phase3"
    /\ IF ~in.is_critical_native /\ Len(CalleeSaveScratchRegisters) < 3
       THEN Fatal("CHECK_GE(callee_save_scratch_regs.size(), 3u)")
       ELSE Emit("phase4", Phase3Ops(in), current_frame_size, current_out_arg_size,
                 method_register, return_save_location, <<>>, <<>>)

(* Lines 402-507: 4.1 the argument move for the native call, 4.2 JNIEnv*.  *)

\* Line 420: the method is not going to be in the `jclass` argument register.
Phase4NeedsNewMethodReg(r) == ~r.is_static \/ ~JniInReg(r, 2)

\* Line 419: method_offset.
MethodOffset(coas) == coas + MrMethodStackOffset

\* A faulty variant of Phase4MaterializeOps that takes the method pointer from
\* the incoming method register for every method; C19 tells the two apart.
Phase4MaterializeOpsMove(r, coas, mreg) ==
    <<Move(callee_save_temp, MrMethodRegister, kRawPointerSize(r))>>

\* Lines 425-433: the method pointer goes to callee_save_temp.
Phase4MaterializeOps(r, coas, mreg) ==
    IF r.is_fast_native THEN <<Move(callee_save_temp, mreg, kRawPointerSize(r))>>
    ELSE <<LoadFrame(callee_save_temp, MethodOffset(coas), kRawPointerSize(r))>>

\* method_register after lines 420-434.
Phase4MethodRegA(r, mreg) ==
    IF Phase4NeedsNewMethodReg(r) THEN callee_save_temp ELSE mreg

\* A faulty variant of Phase4MethodRegB that does not take the `jclass`
\* register as the method register; C20 tells the two apart.
Phase4MethodRegBKept(r, mreg) == mreg

\* method_register after lines 435-452.
Phase4MethodRegB(r, mreg) ==
    IF r.is_static /\ JniInReg(r, 2) THEN JniRegister(r, 2) ELSE mreg

\* Lines 435-469: the entry for `jclass` or `this`; mregA is method_register there.
Phase4FirstEntry(r, cfs, coas, mregA) ==
    IF r.is_static
    THEN Arg(IF JniInReg(r, 2) THEN LocReg(JniRegister(r, 2), kRawPointerSize(r))
                               ELSE LocStack(JniStackOffset(r, 2), kRawPointerSize(r)),
             IF mregA = NoRegister THEN LocStack(MethodOffset(coas), kRawPointerSize(r))
                                   ELSE LocReg(mregA, kRawPointerSize(r)),
             kInvalidReferenceOffset)
    ELSE Arg(JniLoc(r, 2, kRawPointerSize(r)),
             IF r.is_fast_native /\ MrInReg(r, 1)
                THEN LocReg(MrRegister(r, 1), kObjectReferenceSize)
                ELSE LocStack(MrStackOffset(r, cfs, 1), kObjectReferenceSize),
             MrStackOffset(r, cfs, 1))

\* A faulty variant of Phase4ArgEntry that does not skip the stack arguments
\* of a normal native method; C18 tells the two apart.
Phase4ArgEntryNoSkip(r, cfs, i, pos) ==
    LET is_reference == IsReference(MrArgs(r)[i])
        src_size == IF ~is_reference /\ IsLongOrDouble(MrArgs(r)[i]) THEN 8 ELSE 4
        dest_size == IF is_reference THEN kRawPointerSize(r) ELSE src_size
    IN  <<Arg(JniLoc(r, pos, dest_size),
              IF (r.is_critical_native \/ r.is_fast_native) /\ MrInReg(r, i)
                 THEN LocReg(MrRegister(r, i), src_size)
                 ELSE LocStack(MrStackOffset(r, cfs, i), src_size),
              IF is_reference THEN MrStackOffset(r, cfs, i)
                              ELSE kInvalidReferenceOffset)>>

\* Lines 472-491: the entry for the managed argument i, which goes to the
\* position pos of `main`; <<>> when the loop skips it.
Phase4ArgEntry(r, cfs, i, pos) ==
    LET dest_in_reg == JniInReg(r, pos)
        is_reference == IsReference(MrArgs(r)[i])
        src_size == IF ~is_reference /\ IsLongOrDouble(MrArgs(r)[i]) THEN 8 ELSE 4
        dest_size == IF is_reference THEN kRawPointerSize(r) ELSE src_size
    IN  IF IsNormalNative(r) /\ ~dest_in_reg THEN <<>>
        ELSE <<Arg(JniLoc(r, pos, dest_size),
                   IF (r.is_critical_native \/ r.is_fast_native) /\ MrInReg(r, i)
                      THEN LocReg(MrRegister(r, i), src_size)
                      ELSE LocStack(MrStackOffset(r, cfs, i), src_size),
                   IF is_reference THEN MrStackOffset(r, cfs, i)
                                   ELSE kInvalidReferenceOffset)>>

\* The managed arguments the loop of line 472 walks, and the position in
\* `main` that goes with the managed argument i.
Phase4FirstLoopArg(r) == IF r.is_critical_native \/ r.is_static THEN 1 ELSE 2
\* A faulty variant of Phase4PosOfArg that forgets the JNIEnv* parameter of
\* `main`; C7 tells the two apart.
Phase4PosOfArgNoEnv(r, i) ==
    IF r.is_critical_native THEN i ELSE IF r.is_static THEN i + 1 ELSE i

Phase4PosOfArg(r, i) ==
    IF r.is_critical_native THEN i ELSE IF r.is_static THEN i + 2 ELSE i + 1

Phase4Entries(r, cfs, coas, mregA) ==
    (IF r.is_critical_native
     THEN <<Arg(LocReg(HiddenArgumentRegister, kRawPointerSize(r)),
                LocReg(MrMethodRegister, kRawPointerSize(r)),
                kInvalidReferenceOffset)>>
     ELSE <<Phase4FirstEntry(r, cfs, coas, mregA)>>)
    \o Concat([j \in 1..(Len(MrArgs(r)) + 1 - Phase4FirstLoopArg(r)) |->
                 Phase4ArgEntry(r, cfs, j + Phase4FirstLoopArg(r) - 1,
                                Phase4PosOfArg(r, j + Phase4FirstLoopArg(r) - 1))])

\* 4.2: the JNI environment pointer goes to the first native parameter.
Phase4_2Ops(r) ==
    IF r.is_critical_native THEN <<>>
    ELSE IF JniInReg(r, 1) THEN <<Move(JniRegister(r, 1), jni_env_reg, kRawPointerSize(r))>>
    ELSE <<StoreFrame(JniStackOffset(r, 1), jni_env_reg, kRawPointerSize(r))>>

\* Parameters of `main` passed over when the loop of line 472 ends.
Phase4MainConsumed(r) ==
    NumberOfExtraArgumentsForJni(r) + Len(MrArgs(r)) + 1 - Phase4FirstLoopArg(r)

\* The DCHECK of line 439 cannot fail: method_register is empty there only
\* when line 420 found the `jclass` parameter in a register.
Phase4ArgsFailure(r, mreg) ==
    CASE r.debug /\ ~r.is_critical_native /\ Phase4NeedsNewMethodReg(r)
            /\ r.is_fast_native /\ mreg = NoRegister ->
            "DCHECK(!method_register.IsNoRegister())"
      [] r.debug /\ ~r.is_critical_native /\ Phase4NeedsNewMethodReg(r)
            /\ ~r.is_fast_native /\ mreg # NoRegister ->
            "DCHECK(method_register.IsNoRegister())"
      [] r.debug /\ Phase4MainConsumed(r) < JniNumArgs(r, r.shorty) ->
            "DCHECK(!main_jni_conv->HasNext())"
      [] OTHER -> ""

Phase4Args ==
    /\ pc = "phase4"
    /\ LET mregA == IF in.is_critical_native THEN method_register
                    ELSE Phase4MethodRegA(in, method_register)
           mregB == IF in.is_critical_native THEN method_register
                    ELSE Phase4MethodRegB(in, mregA)
           materialize == ~in.is_critical_native /\ Phase4NeedsNewMethodReg(in)
       IN  IF Phase4ArgsFailure(in, method_register) # ""
           THEN Fatal(Phase4ArgsFailure(in, method_register))
           ELSE Emit("phase4_3",
                     Opt(materialize,
                         Phase4MaterializeOps(in, current_out_arg_size, method_register))
                     \o <<MoveArguments(Phase4Entries(in, current_frame_size,
                                                      current_out_arg_size, mregA))>>
                     \o Phase4_2Ops(in),
                     current_frame_size, current_out_arg_size, mregB, return_save_location,
                     Opt(materialize /\ in.is_fast_native, <<method_register>>)
                     \o Opt(~in.is_critical_native /\ in.is_static /\ mregA # NoRegister,
                            <<mregA>>),
                     <<>>)

(* Lines 509-540: 4.3 the native call, 4.4 the result width.               *)
Phase4_3Ops(r, mreg) ==
    IF r.is_critical_native
    THEN IF UseTailCall(r)
         THEN <<JumpReg(HiddenArgumentRegister, "EntryPointFromJniOffset")>>
         ELSE <<Call(HiddenArgumentRegister, "EntryPointFromJniOffset")>>
    ELSE <<Call(mreg, "EntryPointFromJniOffset")>>

Phase4_4OpsSignOnly(r) ==
    IF ~RequiresSmallResultTypeExtension(r) THEN <<>>
    ELSE <<SignExtend(JniReturnRegister(r), ComponentSize(ReturnChar(r)))>>
Phase4_4Ops(r) ==
    IF ~RequiresSmallResultTypeExtension(r) THEN <<>>
    ELSE IF ReturnChar(r) \in {"B", "S"}
         THEN <<SignExtend(JniReturnRegister(r), ComponentSize(ReturnChar(r)))>>
         ELSE <<ZeroExtend(JniReturnRegister(r), ComponentSize(ReturnChar(r)))>>

\* The checks of lines 519, 528, 529 and 535, in the order of the source.
Phase4CallFailure(r, mreg) ==
    IF r.debug /\ ~r.is_critical_native /\ mreg = NoRegister
    THEN "DCHECK(method_register.IsRegister())"
    ELSE IF ~RequiresSmallResultTypeExtension(r) THEN ""
    ELSE IF r.debug /\ ~HasSmallReturnType(r)
    THEN "DCHECK(main_jni_conv->HasSmallReturnType())"
    ELSE IF r.is_critical_native /\ UseTailCall(r)
    THEN "CHECK(!is_critical_native || !UseTailCall()) line 529"
    ELSE IF ReturnChar(r) \notin {"B", "S", "Z", "C"}
    THEN "CHECK(GetReturnType() == kPrimBoolean || GetReturnType() == kPrimChar)"
    ELSE ""

\* Line 523: the method register is not needed after the native call.
Phase4_3MethodRegister(r, mreg) == IF r.is_critical_native THEN mreg ELSE NoRegister

Phase4Call ==
    /\ pc = "phase4_3"
    /\ IF Phase4CallFailure(in, method_register) # ""
       THEN Fatal(Phase4CallFailure(in, method_register))
       ELSE Emit("phase5", Phase4_3Ops(in, method_register) \o Phase4_4Ops(in),
                 current_frame_size, current_out_arg_size,
                 Phase4_3MethodRegister(in, method_register), return_save_location,
                 Opt(~in.is_critical_native, <<method_register>>), <<>>)

(* Lines 542-669: 5. the return value and the call of JniMethodEnd*().     *)

\* A faulty variant of Phase5_1Ops that moves the return value of a method
\* that does not spill it whether or not the two return registers differ;
\* C23 tells the two apart.
Phase5_1OpsMoveAlways(r, rsl) ==
    IF SpillsReturnValue(r)
    THEN <<StoreFrame(rsl, JniReturnRegister(r), SizeOfReturnValue(r))>>
    ELSE IF (r.is_fast_native \/ r.is_critical_native) /\ SizeOfReturnValue(r) # 0
         THEN <<Move(MrReturnRegister(r), JniReturnRegister(r), SizeOfReturnValue(r))>>
         ELSE <<>>

\* 5.1 Spill or move the return value.
Phase5_1Ops(r, rsl) ==
    IF SpillsReturnValue(r)
    THEN <<StoreFrame(rsl, JniReturnRegister(r), SizeOfReturnValue(r))>>
    ELSE IF (r.is_fast_native \/ r.is_critical_native) /\ SizeOfReturnValue(r) # 0
            /\ JniReturnRegister(r) # MrReturnRegister(r)
         THEN <<Move(MrReturnRegister(r), JniReturnRegister(r), SizeOfReturnValue(r))>>
         ELSE <<>>

\* Lines 582-583: the label is created for non-critical methods only.
exception_slow_path(r) ==
    IF ~r.is_critical_native THEN "exception_slow_path" ELSE "nullptr"

\* Line 585 hands the assembler a null label when a release build is given a
\* method that is both @FastNative and @CriticalNative: the compile either
\* crashes there or goes on with an operation that names no label.
Phase5NullLabelOutcomes(r) ==
    IF r.is_fast_native /\ reference_return(r) /\ exception_slow_path(r) = "nullptr"
    THEN {"crash", "emitted"} ELSE {"defined"}

\* A faulty variant of Phase5EarlyPollOps that checks for suspension before
\* it polls for the exception; C12 tells the two apart.
Phase5EarlyPollOpsSuspendFirst(r) ==
    Opt(r.is_fast_native /\ reference_return(r),
        << SuspendCheck("suspend_check_slow_path"),
           Bind("suspend_check_resume"),
           ExceptionPoll(exception_slow_path(r)) >>)

\* 5.2 and 5.3: the early polls of @FastNative with a reference return.
Phase5EarlyPollOps(r) ==
    Opt(r.is_fast_native /\ reference_return(r),
        << ExceptionPoll(exception_slow_path(r)),
           SuspendCheck("suspend_check_slow_path"),
           Bind("suspend_check_resume") >>)

\* 5.4: out_arg_size_diff, 0 when the frame is not grown.
Phase5OutArgSizeDiff(r, coas) ==
    IF ~r.is_critical_native /\ r.end_out > coas THEN r.end_out - coas ELSE 0

\* A faulty variant of Phase5_4Ops that grows the frame by the whole out-args
\* area of `end`; C21 tells the two apart.
Phase5_4OpsWholeArea(r, coas) ==
    Opt(Phase5OutArgSizeDiff(r, coas) # 0, <<IncreaseFrameSize(r.end_out)>>)

Phase5_4Ops(r, coas) ==
    Opt(Phase5OutArgSizeDiff(r, coas) # 0, <<IncreaseFrameSize(Phase5OutArgSizeDiff(r, coas))>>)

\* A faulty variant of Phase5CallsEnd that makes the end call for every
\* non-critical method; C5 tells the two apart.
Phase5CallsEndNonCritical(r) == ~r.is_critical_native

\* 5.5: whether an end call is made, and its entrypoint.
Phase5CallsEnd(r) == ~r.is_critical_native /\ (~r.is_fast_native \/ reference_return(r))
Phase5JniEnd(r) ==
    IF r.is_fast_native THEN "pJniDecodeReferenceResult"
    ELSE GetJniEntrypointThreadOffset("kEnd", reference_return(r), r.is_synchronized)

\* The unlock object, into the position pos of `end`.
Phase5UnlockOps(r, cfs, coas, pos) ==
    IF r.is_static
    THEN IF ~JniInReg(r, pos)
         THEN <<Copy(JniStackOffset(r, pos), MethodOffset(coas), kRawPointerSize(r))>>
         ELSE <<LoadFrame(JniRegister(r, pos), MethodOffset(coas), kRawPointerSize(r))>>
    ELSE CreateJObjectForThis(r, pos, MrStackOffset(r, cfs, 1))

\* A faulty variant of Phase5_5Ops that passes the unlock object before the
\* result; C24 tells the two apart.
Phase5_5OpsUnlockFirst(r, cfs, coas) ==
    LET p1 == IF r.is_synchronized THEN 2 ELSE 1
        p2 == IF reference_return(r) THEN p1 + 1 ELSE p1
    IN  Opt(r.is_synchronized, Phase5UnlockOps(r, cfs, coas, 1))
        \o Opt(reference_return(r), SetNativeParameter(r, p1, JniReturnRegister(r)))
        \o CallWithThread(r, p2, Phase5JniEnd(r))

\* cfs and coas are current_frame_size and current_out_arg_size after 5.4.
Phase5_5Ops(r, cfs, coas) ==
    LET p1 == IF reference_return(r) THEN 2 ELSE 1
        p2 == IF r.is_synchronized THEN p1 + 1 ELSE p1
    IN  Opt(reference_return(r), SetNativeParameter(r, 1, JniReturnRegister(r)))
        \o Opt(r.is_synchronized, Phase5UnlockOps(r, cfs, coas, p1))
        \o CallWithThread(r, p2, Phase5JniEnd(r))

\* 5.6 Reload the return value.
Phase5_6Ops(r, rsl) ==
    Opt(~r.is_critical_native /\ SpillsReturnValue(r),
        <<LoadFrame(MrReturnRegister(r), rsl, MrSizeOfReturnValue(r))>>)

Phase5Failure(r, cfs, coas) ==
    CASE SpillsReturnValue(r) /\ r.debug /\ r.is_critical_native -> "DCHECK(!is_critical_native)"
      [] SpillsReturnValue(r) /\ ~(ReturnValueSaveLocation(r, r.main_out) < cfs) ->
            "CHECK_LT(return_save_location, current_frame_size)"
      [] ~SpillsReturnValue(r) /\ (r.is_fast_native \/ r.is_critical_native)
            /\ SizeOfReturnValue(r) # 0 /\ JniReturnRegister(r) # MrReturnRegister(r)
            /\ r.is_critical_native /\ UseTailCall(r) ->
            "CHECK(!is_critical_native || !UseTailCall()) line 568"
      [] r.debug /\ Phase5OutArgSizeDiff(r, coas) # 0 /\ r.is_fast_native ->
            "DCHECK(!is_fast_native) line 603"
      [] OTHER -> ""

Phase5 ==
    /\ pc = "phase5"
    /\ LET rsl0 == IF SpillsReturnValue(in) THEN ReturnValueSaveLocation(in, in.main_out) ELSE 0
           diff == Phase5OutArgSizeDiff(in, current_out_arg_size)
           cfs == current_frame_size + diff
           coas == current_out_arg_size + diff
           rsl == IF diff # 0 THEN rsl0 + diff ELSE rsl0
       IN  \E outcome \in Phase5NullLabelOutcomes(in) :
           IF Phase5Failure(in, current_frame_size, current_out_arg_size) # ""
           THEN Fatal(Phase5Failure(in, current_frame_size, current_out_arg_size))
           ELSE IF outcome = "crash"
           THEN Fatal("ExceptionPoll(nullptr)")
           ELSE Emit("phase6",
                     Phase5_1Ops(in, rsl0)
                     \o Phase5EarlyPollOps(in)
                     \o Phase5_4Ops(in, current_out_arg_size)
                     \o Opt(Phase5CallsEnd(in), Phase5_5Ops(in, cfs, coas))
                     \o Phase5_6Ops(in, rsl),
                     cfs, coas, method_register, rsl, <<>>, <<>>)

\* A faulty variant of Phase6Ops that leaves the pop out of a @FastNative
\* stub; C2 tells the two apart.
Phase6OpsNormalOnly(r) ==
    Opt(~r.is_critical_native /\ ~r.is_fast_native,
        PopLocalReferenceFrame(jni_env_reg, saved_cookie_reg, callee_save_temp))

(* Lines 671-675: 6. Pop local reference frame.                            *)
Phase6Ops(r) ==
    Opt(~r.is_critical_native,
        PopLocalReferenceFrame(jni_env_reg, saved_cookie_reg, callee_save_temp))

Phase6 ==
    /\ pc = "phase6"
    /\ Emit("phase7", Phase6Ops(in), current_frame_size, current_out_arg_size,
            method_register, return_save_location, <<>>, <<>>)

(* Lines 677-710: 7. Return from the JNI stub.                             *)
Phase7_1Ops(r, coas) == Opt(~r.is_critical_native, <<DecreaseFrameSize(coas)>>)

\* A faulty variant of Phase7PollOps that polls for an exception in the
\* epilogue of every method that is not @CriticalNative; C25 tells the two
\* apart.
Phase7PollOpsRepeated(r) ==
    Opt(~r.is_critical_native, <<ExceptionPoll("exception_slow_path")>>)
    \o Opt(r.is_fast_native /\ ~reference_return(r),
           <<SuspendCheck("suspend_check_slow_path"), Bind("suspend_check_resume")>>)

Phase7PollOps(r) ==
    Opt(~r.is_critical_native /\ (~r.is_fast_native \/ ~reference_return(r)),
        <<ExceptionPoll("exception_slow_path")>>)
    \o Opt(r.is_fast_native /\ ~reference_return(r),
           <<SuspendCheck("suspend_check_slow_path"), Bind("suspend_check_resume")>>)

\* A faulty variant of Phase7RemovesFrame that removes the frame after a tail
\* call too; C13 tells the two apart.
Phase7RemovesFrameAlways(r) == r.is_native

Phase7RemovesFrame(r) == ~r.is_critical_native \/ ~UseTailCall(r)

Phase7_4Ops(r, cfs) ==
    Opt(Phase7RemovesFrame(r), <<RemoveFrame(cfs, ~r.is_critical_native)>>)

Phase7 ==
    /\ pc = "phase7"
    /\ LET cfs == IF in.is_critical_native THEN current_frame_size
                  ELSE current_frame_size - current_out_arg_size
           body == Phase7_1Ops(in, current_out_arg_size) \o Phase7PollOps(in)
           chk703 == CfaCheck(703, CfaAfter(cfa, body), cfs)
           chk709 == CfaCheck(709, CfaAfter(cfa, body \o Phase7_4Ops(in, cfs)), cfs)
       IN  IF CfaCheckFails(in, chk703)
           THEN Fatal("DCHECK_EQ(cfa, current_frame_size) line 703")
           ELSE IF Phase7RemovesFrame(in) /\ CfaCheckFails(in, chk709)
           THEN Fatal("DCHECK_EQ(cfa, current_frame_size) line 709")
           ELSE Emit("phase8", body \o Phase7_4Ops(in, cfs), cfs, current_out_arg_size,
                     method_register, return_save_location, <<>>,
                     <<chk703>> \o Opt(Phase7RemovesFrame(in), <<chk709>>))

(* Lines 712-791: 8. Emit slow paths.                                      *)

\* A faulty variant of SlowPathRewind that leaves the CFA offset to the
\* DecreaseFrameSize alone; C10 tells the two apart.
SlowPathRewindNoAdjust(n) ==
    Opt(n # 0, <<DecreaseFrameSize(n)>>)

\* Lines 753-754, 775-776, 783-784: rewind the out-args area in a slow path.
SlowPathRewind(n) ==
    Opt(n # 0, <<AdjustCFAOffset(SizeToInt(n)), DecreaseFrameSize(n)>>)

\* A faulty variant of SlowPathRegrow that restores the CFA offset but not the
\* stack pointer; C1 tells the two apart.
SlowPathRegrowCfaOnly(n) ==
    Opt(n # 0, <<AdjustCFAOffset(NegSizeToInt(n))>>)

\* Lines 763-764: grow the out-args area again before going back.
SlowPathRegrow(n) ==
    Opt(n # 0, <<IncreaseFrameSize(n), AdjustCFAOffset(NegSizeToInt(n))>>)

\* A faulty variant of Phase8ReadBarrierOps that reads the declaring class
\* through the emitter's method_register, which is empty by then; C31 tells
\* the two apart.
Phase8ReadBarrierOpsStaleRegister(r) ==
    Opt(kUseReadBarrier(r) /\ r.is_static /\ ~r.is_critical_native,
        <<Bind("jclass_read_barrier_slow_path")>>
        \o Opt(kUseBakerReadBarrier(r),
               << LoadMember(CalleeSaveScratchRegisters[1], NoRegister,
                             "DeclaringClassOffset", kObjectReferenceSize),
                  TestMarkBit(CalleeSaveScratchRegisters[1], "jclass_read_barrier_return") >>)
        \o << CallFromThread("pReadBarrierJni"), Jump("jclass_read_barrier_return") >>)

\* A faulty variant of Phase8ReadBarrierOps that does not jump back after the
\* call of the entrypoint; C26 tells the two apart.
Phase8ReadBarrierOpsNoJump(r) ==
    Opt(kUseReadBarrier(r) /\ r.is_static /\ ~r.is_critical_native,
        <<Bind("jclass_read_barrier_slow_path")>>
        \o Opt(kUseBakerReadBarrier(r),
               << LoadMember(CalleeSaveScratchRegisters[1], MrMethodRegister,
                             "DeclaringClassOffset", kObjectReferenceSize),
                  TestMarkBit(CalleeSaveScratchRegisters[1], "jclass_read_barrier_return") >>)
        \o << CallFromThread("pReadBarrierJni") >>)

\* 8.1 Read barrier slow path for the declaring class.
Phase8ReadBarrierOps(r) ==
    Opt(kUseReadBarrier(r) /\ r.is_static /\ ~r.is_critical_native,
        <<Bind("jclass_read_barrier_slow_path")>>
        \o Opt(kUseBakerReadBarrier(r),
               << LoadMember(CalleeSaveScratchRegisters[1], MrMethodRegister,
                             "DeclaringClassOffset", kObjectReferenceSize),
                  TestMarkBit(CalleeSaveScratchRegisters[1], "jclass_read_barrier_return") >>)
        \o << CallFromThread("pReadBarrierJni"), Jump("jclass_read_barrier_return") >>)

\* Line 731: the slow path starts with the method register unclobbered.
Phase8MethodRegister(r, mreg) ==
    IF kUseReadBarrier(r) /\ r.is_static /\ ~r.is_critical_native /\ kUseBakerReadBarrier(r)
    THEN MrMethodRegister ELSE mreg

\* A faulty variant of Phase8SuspendOps that calls the suspend check
\* entrypoint with the out-args area still on the stack; C28 tells the two
\* apart.
Phase8SuspendOpsNoRewind(r) ==
    Opt(r.is_fast_native,
        <<Bind("suspend_check_slow_path")>>
        \o <<CallFromThread("pTestSuspend")>>
        \o Opt(reference_return(r), <<StoreStackPointerToThread("TopOfManagedStackOffset")>>)
        \o <<Jump("suspend_check_resume")>>)

\* A faulty variant of Phase8SuspendOps that does not store the stack pointer
\* again after the suspend check; C15 tells the two apart.
Phase8SuspendOpsNoRestore(r) ==
    Opt(r.is_fast_native,
        <<Bind("suspend_check_slow_path")>>
        \o Opt(reference_return(r), SlowPathRewind(r.main_out))
        \o <<CallFromThread("pTestSuspend")>>
        \o Opt(reference_return(r), SlowPathRegrow(r.main_out))
        \o <<Jump("suspend_check_resume")>>)

\* 8.2 Suspend check slow path.
Phase8SuspendOps(r) ==
    Opt(r.is_fast_native,
        <<Bind("suspend_check_slow_path")>>
        \o Opt(reference_return(r), SlowPathRewind(r.main_out))
        \o <<CallFromThread("pTestSuspend")>>
        \o Opt(reference_return(r), <<StoreStackPointerToThread("TopOfManagedStackOffset")>>)
        \o Opt(reference_return(r), SlowPathRegrow(r.main_out))
        \o <<Jump("suspend_check_resume")>>)

\* A faulty variant of Phase8ExceptionPopsFrame that pops in every exception
\* slow path; C3 tells the two apart.
Phase8ExceptionAlwaysPopsFrame(r) == r.is_native

\* 8.3 Exception poll slow path(s), up to the DCHECK of line 789.
Phase8ExceptionPopsFrame(r) == r.is_fast_native /\ reference_return(r)

\* A faulty variant of Phase8ExceptionOps that binds the label of the monitor
\* enter slow path in every method that is not @CriticalNative; C29 tells
\* the two apart.
Phase8ExceptionOpsMonitorAlways(r) ==
    Opt(~r.is_critical_native,
        <<Bind("monitor_enter_exception_slow_path")>> \o SlowPathRewind(r.main_out)
        \o <<Bind("exception_slow_path")>>
        \o Opt(Phase8ExceptionPopsFrame(r),
               SlowPathRewind(r.main_out)
               \o PopLocalReferenceFrame(jni_env_reg, saved_cookie_reg, callee_save_temp)))

Phase8ExceptionOps(r) ==
    Opt(~r.is_critical_native,
        Opt(r.is_synchronized,
            <<Bind("monitor_enter_exception_slow_path")>> \o SlowPathRewind(r.main_out))
        \o <<Bind("exception_slow_path")>>
        \o Opt(Phase8ExceptionPopsFrame(r),
               SlowPathRewind(r.main_out)
               \o PopLocalReferenceFrame(jni_env_reg, saved_cookie_reg, callee_save_temp)))

\* A faulty variant of Phase8Failure that takes every synchronized method
\* for a @FastNative one; C8 tells the two apart.
Phase8FailureSynchronized(r) ==
    IF r.debug /\ ~r.is_critical_native /\ r.is_synchronized
    THEN "DCHECK(!is_fast_native) line 772" ELSE ""

Phase8Failure(r) ==
    IF r.debug /\ ~r.is_critical_native /\ r.is_synchronized /\ r.is_fast_native
    THEN "DCHECK(!is_fast_native) line 772" ELSE ""

Phase8 ==
    /\ pc = "phase8"
    /\ LET body == Phase8ReadBarrierOps(in) \o Phase8SuspendOps(in) \o Phase8ExceptionOps(in)
           chk789 == CfaCheck(789, CfaAfter(cfa, body), current_frame_size)
       IN  IF Phase8Failure(in) # ""
           THEN Fatal(Phase8Failure(in))
           ELSE IF ~in.is_critical_native /\ CfaCheckFails(in, chk789)
           THEN Fatal("DCHECK_EQ(cfa, current_frame_size) line 789")
           ELSE Emit("phase9",
                     body \o Opt(~in.is_critical_native, <<DeliverPendingException>>),
                     current_frame_size, current_out_arg_size,
                     Phase8MethodRegister(in, method_register), return_save_location,
                     Opt(Phase8MethodRegister(in, method_register) # method_register,
                         <<MrMethodRegister>>),
                     Opt(~in.is_critical_native, <<chk789>>))

(* Lines 793-805: 9. Finalize code generation; the JniCompiledMethod is    *)
(* returned with frame size managed_frame_size.                            *)
Phase9 ==
    /\ pc = "phase9"
    /\ pc' = "done"
    /\ UNCHANGED <<in, failure>>
    /\ UNCHANGED emitVars
    /\ UNCHANGED execVars

EmitNext ==
    \/ Classify
    \/ CreateConventions
    \/ Phase1
    \/ Phase2
    \/ Phase2_3
    \/ Phase3
    \/ Phase4Args
    \/ Phase4Call
    \/ Phase5
    \/ Phase6
    \/ Phase7
    \/ Phase8
    \/ Phase9

-----------------------------------------------------------------------------
(* Execution of the emitted stub.  Every conditional branch goes both      *)
(* ways; the stub is left by RemoveFrame, by DeliverPendingException or by *)
(* the tail call of a @CriticalNative method.                              *)

IsBranch(o) == o.op \in {"TestGcMarking", "TestMarkBit", "ExceptionPoll", "SuspendCheck"}
IsLabelJump(o) == o.op = "Jump" /\ o.x = ""
IsTailJump(o) == o.op = "Jump" /\ o.x # ""
IsExit(o) == o.op \in {"RemoveFrame", "DeliverPendingException"} \/ IsTailJump(o)
IsStraight(o) == ~IsBranch(o) /\ ~IsLabelJump(o) /\ ~IsExit(o)

IsBound(s, label) == \E i \in 1..Len(s) : s[i].op = "Bind" /\ s[i].z = label
LabelPos(s, label) == CHOOSE i \in 1..Len(s) : s[i].op = "Bind" /\ s[i].z = label

\* Whether the operations of s that end at index i are the sequence seq.
EndsAt(s, i, seq) ==
    /\ i >= Len(seq)
    /\ s[i] = seq[Len(seq)]
    /\ SubSeq(s, i + 1 - Len(seq), i) = seq

PushEndsAt(s, i) ==
    EndsAt(s, i, PushLocalReferenceFrame(jni_env_reg, saved_cookie_reg, callee_save_temp))
PopEndsAt(s, i) ==
    EndsAt(s, i, PopLocalReferenceFrame(jni_env_reg, saved_cookie_reg, callee_save_temp))

DepthEffect(d, o) ==
    CASE o.op = "BuildFrame" -> o.n
      [] o.op = "IncreaseFrameSize" -> d + o.n
      [] o.op = "DecreaseFrameSize" -> d - o.n
      [] o.op = "RemoveFrame" -> d - o.n
      [] OTHER -> d

\* Lines 256-257 and 757-760: StoreStackPointerToThread writes the top of
\* the managed stack, the suspend check entrypoint leaves it clobbered.
StackTopEffect(t, o) ==
    CASE o.op = "StoreStackPointerToThread" -> Append(t, "store")
      [] o.op = "CallFromThread" /\ o.z = "pTestSuspend" -> Append(t, "suspend")
      [] OTHER -> t

\* Lines 395 and 808-840: what an operation leaves in the callee-save scratch
\* registers g, the fields of the JNI environment being e.  A load through a
\* register that holds JNIEnv* reads the field; what else is written to a
\* scratch register is not followed.  Calls preserve the callee-save
\* registers.  The incoming method register holds the method pointer on
\* entry; argument moves and calls clobber it (lines 372 and 423-424), but
\* for the read barrier entrypoint, which preserves it (line 725).
RegsEffect(g, e, o) ==
    [reg \in DOMAIN g |->
        CASE reg = MrMethodRegister
               /\ \/ o.op = "MoveArguments"
                  \/ o.op \in {"Call", "CallFromThread"} /\ o.z # "pReadBarrierJni" ->
                Unknown
          [] o.op = "LoadRawPtrFromThread" /\ o.x = reg ->
                IF o.z = "JniEnvOffset" THEN EnvPointer ELSE Unknown
          [] o.op = "Load" /\ o.x = reg ->
                IF o.y \in DOMAIN g /\ g[o.y] = EnvPointer /\ o.z \in DOMAIN e
                THEN e[o.z] ELSE Unknown
          [] o.op = "Move" /\ o.x = reg ->
                IF o.y \in DOMAIN g THEN g[o.y] ELSE Unknown
          [] o.op = "MoveArguments" /\ (\E k \in 1..Len(o.args) : o.args[k].dest.reg = reg) ->
                Unknown
          [] o.op \in {"GetCurrentThread", "CreateJObject", "SignExtend", "ZeroExtend"}
                /\ o.x = reg -> Unknown
          [] OTHER -> g[reg]]

\* What an operation leaves in the fields of the JNI environment: a store
\* through a register that holds JNIEnv* writes the field, and the native
\* code leaves the segment state of the local references it created.
EnvEffect(e, g, w, o) ==
    CASE o.op = "Store" /\ o.x \in DOMAIN g /\ g[o.x] = EnvPointer /\ o.z \in DOMAIN e ->
            [e EXCEPT ![o.z] = IF o.y \in DOMAIN g THEN g[o.y] ELSE Unknown]
      [] o.op = "Call" /\ o.z = "EntryPointFromJniOffset" ->
            [e EXCEPT !.SegmentStateOffset = Word(w.native)]
      [] OTHER -> e

\* Lines 374, 585, 595, 690, 697: the exception polls and suspend checks
\* that the stub has executed, in their order.
PollEffect(t, o) ==
    IF o.op \in {"ExceptionPoll", "SuspendCheck"} THEN Append(t, o.op) ELSE t

\* Lines 595 and 697: the stack depth at which the last SuspendCheck ran.
CheckDepthEffect(c, d, o) == IF o.op = "SuspendCheck" THEN d ELSE c

ExecEnter ==
    /\ pc = "done"
    /\ xst = "idle"
    /\ xst' = "running"
    /\ xpc' = 1
    /\ UNCHANGED <<in, pc, failure, depth, inc_sum, dec_sum, pushes, pops, via, stack_top, called>>
    /\ UNCHANGED <<polled, check_depth, world, jni_env, regs>>
    /\ UNCHANGED emitVars

ExecStraight ==
    /\ xst = "running"
    /\ IsStraight(script[xpc])
    /\ LET o == script[xpc]
       IN  /\ depth' = DepthEffect(depth, o)
           /\ inc_sum' = IF o.op = "IncreaseFrameSize" THEN inc_sum + o.n ELSE inc_sum
           /\ dec_sum' = IF o.op = "DecreaseFrameSize" THEN dec_sum + o.n ELSE dec_sum
           /\ pushes' = IF PushEndsAt(script, xpc) THEN pushes + 1 ELSE pushes
           /\ pops' = IF PopEndsAt(script, xpc) THEN pops + 1 ELSE pops
           /\ stack_top' = StackTopEffect(stack_top, o)
           /\ called' = IF o.op \in {"Call", "CallFromThread"} THEN called \cup {o.z} ELSE called
           /\ jni_env' = EnvEffect(jni_env, regs, world, o)
           /\ regs' = RegsEffect(regs, jni_env, o)
    /\ xpc' = xpc + 1
    /\ UNCHANGED <<in, pc, failure, xst, via, polled, check_depth, world>>
    /\ UNCHANGED emitVars

ExecFallThrough ==
    /\ xst = "running"
    /\ IsBranch(script[xpc])
    /\ xpc' = xpc + 1
    /\ polled' = PollEffect(polled, script[xpc])
    /\ check_depth' = CheckDepthEffect(check_depth, depth, script[xpc])
    /\ UNCHANGED <<in, pc, failure, xst, depth, inc_sum, dec_sum, pushes, pops, via, stack_top, called>>
    /\ UNCHANGED <<world, jni_env, regs>>
    /\ UNCHANGED emitVars

ExecBranch ==
    /\ xst = "running"
    /\ IsBranch(script[xpc])
    /\ IsBound(script, script[xpc].z)
    /\ xpc' = LabelPos(script, script[xpc].z)
    /\ via' = via \cup {script[xpc].z}
    /\ polled' = PollEffect(polled, script[xpc])
    /\ check_depth' = CheckDepthEffect(check_depth, depth, script[xpc])
    /\ UNCHANGED <<in, pc, failure, xst, depth, inc_sum, dec_sum, pushes, pops, stack_top,
                   called>>
    /\ UNCHANGED <<world, jni_env, regs>>
    /\ UNCHANGED emitVars

ExecJump ==
    /\ xst = "running"
    /\ IsLabelJump(script[xpc])
    /\ xpc' = LabelPos(script, script[xpc].z)
    /\ UNCHANGED <<in, pc, failure, xst, depth, inc_sum, dec_sum, pushes, pops, via, stack_top, called>>
    /\ UNCHANGED <<polled, check_depth, world, jni_env, regs>>
    /\ UNCHANGED emitVars

ExecExit ==
    /\ xst = "running"
    /\ IsExit(script[xpc])
    /\ xst' = CASE script[xpc].op = "RemoveFrame" -> "returned"
                [] script[xpc].op = "DeliverPendingException" -> "delivered"
                [] OTHER -> "tail_called"
    /\ depth' = DepthEffect(depth, script[xpc])
    /\ UNCHANGED <<in, pc, failure, xpc, inc_sum, dec_sum, pushes, pops, via, stack_top, called>>
    /\ UNCHANGED <<polled, check_depth, world, jni_env, regs>>
    /\ UNCHANGED emitVars

ExecNext ==
    \/ ExecEnter
    \/ ExecStraight
    \/ ExecFallThrough
    \/ ExecBranch
    \/ ExecJump
    \/ ExecExit

-----------------------------------------------------------------------------
(* Specifications.                                                         *)

\* Emission and execution, over requests that vary the attributes, the
\* build, the return type and the out-args sizes of both conventions, and
\* over the normal native methods of one shorty with parameters.
FrameShorty == <<"V", "L", "J">>
FrameRequests ==
    Requests(Shorties(ReturnTypes, 0), {8}, {0, MaxJniRegArgs}, {MaxMrRegArgs},
             OutArgSizes, OutArgSizes)
    \cup { r \in NativeRequests({FrameShorty}, {8}, {0, MaxJniRegArgs}, {MaxMrRegArgs},
                                OutArgSizes, OutArgSizes) : IsNormalNative(r) }
Init == InitFor(FrameRequests)
Next == EmitNext \/ ExecNext
Spec == Init /\ [][Next]_vars

\* The emission alone, over requests that vary the shorty, the pointer size
\* and the register assignment of both conventions.
ArgsReturnTypes == {"F", "L"}
ArgsRequests ==
    { r \in Requests(Shorties(ArgsReturnTypes, MaxParams), {4, 8}, 0..MaxJniRegArgs,
                     0..MaxMrRegArgs, {OutArgUnit}, {OutArgUnit}) :
        ValidAttributes(r) /\ r.rb = "off" }
InitArgs == InitFor(ArgsRequests)
SpecArgs == InitArgs /\ [][EmitNext]_vars

\* The emission alone, over requests that vary the return type among the
\* narrow and the floating-point ones and leave the convention free to ask
\* for a tail call whatever else it answers, and to report a frame that has
\* room for the method pointer alone.
TailReturnTypes == {"V", "I", "F", "B", "C", "L"}
TailRequests ==
    UNION { { [r EXCEPT !.frame_size = f] : f \in {kRawPointerSize(r), ManagedFrameSize} } :
            r \in { q \in RequestSpace(Shorties(TailReturnTypes, 0), {8}, {MaxJniRegArgs},
                                       {MaxMrRegArgs}, OutArgSizes, OutArgSizes) :
                      ConventionAnswers(q) /\ q.rb = "off" } }
InitTail == InitFor(TailRequests)
SpecTail == InitTail /\ [][EmitNext]_vars

\* The slice of the result width: every small return type, and a convention
\* that asks for the extension whatever the return type is.
WidthReturnTypes == {"V", "I", "Z", "B", "C", "S"}
WidthRequests ==
    UNION { { [r EXCEPT !.small_ext = e] : e \in BOOLEAN } :
            r \in { q \in RequestSpace(Shorties(WidthReturnTypes, 0), {8}, {MaxJniRegArgs},
                                        {MaxMrRegArgs}, {OutArgUnit}, {OutArgUnit}) :
                        ConventionAnswers(q) /\ ~q.small_ext /\ q.rb = "off" } }
InitWidth == InitFor(WidthRequests)
SpecWidth == InitWidth /\ [][EmitNext]_vars

\* The slice of the entry check: access flags with and without the native
\* bit, every combination of the other bits, shorties with and without a
\* reference.
EntryReturnTypes == {"V", "L"}
EntryRequests ==
    UNION { { [r EXCEPT !.is_native = n] : n \in BOOLEAN } :
            r \in { q \in RequestSpace(Shorties(EntryReturnTypes, 0), {8}, {MaxJniRegArgs},
                                        {MaxMrRegArgs}, {OutArgUnit}, {OutArgUnit}) :
                        ConventionConsistent(q) /\ q.rb = "off" } }
InitEntry == InitFor(EntryRequests)
SpecEntry == InitEntry /\ [][EmitNext]_vars

\* Emission and execution of the methods with valid attributes, each in the
\* three read barrier builds, over out-args areas of `end` that are smaller
\* than, as large as and larger than a non-empty one of `main`.
EndReturnTypes == {"V", "J", "L"}
EndOutArgSizes == {u * OutArgUnit : u \in 0..(MaxOutArgUnits + 1)}
ReadBarrierBuilds == {"off", "rb", "baker"}
EndRequests ==
    UNION { { [r EXCEPT !.rb = b] : b \in ReadBarrierBuilds } :
            r \in { q \in NativeRequests(Shorties(EndReturnTypes, 0), {8}, {0, MaxJniRegArgs},
                                         {MaxMrRegArgs}, OutArgSizes, EndOutArgSizes) :
                      ValidAttributes(q) /\ ~kUseReadBarrier(q) } }
InitEnd == InitFor(EndRequests)
SpecEnd == InitEnd /\ [][Next]_vars

\* Emission and execution of the methods that push a local reference frame,
\* each in every JNI environment of Worlds.
EnvReturnTypes == {"V", "L"}
EnvRequests ==
    { r \in NativeRequests(Shorties(EnvReturnTypes, 0), {8}, {MaxJniRegArgs}, {MaxMrRegArgs},
                           {OutArgUnit}, {OutArgUnit}) :
        ValidAttributes(r) /\ ~r.is_critical_native /\ ~r.debug /\ ~kUseReadBarrier(r) }
InitEnv == InitOf(EnvRequests, Worlds)
SpecEnv == InitEnv /\ [][Next]_vars

-----------------------------------------------------------------------------
(* Vocabulary of the properties.                                           *)

Compiled == pc = "done"
AtExit == xst = "running" /\ IsExit(script[xpc])
Exited == xst \in {"returned", "delivered", "tail_called"}

IsCallOf(o, entrypoints) == o.op \in {"Call", "CallFromThread"} /\ o.z \in entrypoints
JniStartEntrypoints == {"pJniMethodStart", "pJniMethodStartSynchronized"}
JniEndEntrypoints ==
    {"pJniMethodEnd", "pJniMethodEndWithReference", "pJniMethodEndSynchronized",
     "pJniMethodEndWithReferenceSynchronized"}
IsJniStartCall(o) == IsCallOf(o, JniStartEntrypoints)
IsJniEndCall(o) == IsCallOf(o, JniEndEntrypoints)
IsDecodeCall(o) == IsCallOf(o, {"pJniDecodeReferenceResult"})
IsNativeCall(o) == o.op \in {"Call", "Jump"} /\ o.z = "EntryPointFromJniOffset"

NumPushes(s) == Cardinality({i \in 1..Len(s) : s[i].op = "Store" /\ PushEndsAt(s, i)})
NumPops(s) == Cardinality({i \in 1..Len(s) : s[i].op = "Store" /\ PopEndsAt(s, i)})
HasOp(s, name) == \E i \in 1..Len(s) : s[i].op = name

-----------------------------------------------------------------------------
(* C1: for every valid attribute tuple and all out-arg sizes, on every     *)
(* control-flow path of the stub from BuildFrame to an exit (RemoveFrame,  *)
(* DeliverPendingException), also through the suspend-check slow path, the *)
(* executed IncreaseFrameSize amounts sum up to the executed               *)
(* DecreaseFrameSize amounts, and in a non-critical stub the stack depth   *)
(* at the exit is managed_frame_size.                                      *)
C1_FrameBalanced ==
    (ValidAttributes(in) /\ AtExit) =>
        /\ inc_sum = dec_sum
        /\ ~in.is_critical_native => depth = in.frame_size

\* The normal exit reached after a detour through the suspend-check slow
\* path that rewound and re-grew a non-empty out-args area.
C1_Witness ==
    /\ AtExit
    /\ ValidAttributes(in)
    /\ script[xpc].op = "RemoveFrame"
    /\ "suspend_check_slow_path" \in via
    /\ inc_sum = 2 * in.main_out
    /\ in.main_out > 0

(* C2: PushLocalReferenceFrame is emitted iff PopLocalReferenceFrame is,   *)
(* and both are absent exactly for @CriticalNative, for every attribute    *)
(* tuple, valid or not.                                                    *)
C2_PushIffPop ==
    Compiled =>
        LET pushed == NumPushes(script)
            popped == NumPops(script)
        IN  /\ (pushed > 0) <=> (popped > 0)
            /\ (pushed = 0 /\ popped = 0) <=> in.is_critical_native

\* A compiled stub of a synchronized @FastNative method with a reference
\* return, which holds one push and two pops (main path and slow path).
C2_Witness ==
    /\ Compiled
    /\ in.is_fast_native /\ in.is_synchronized
    /\ NumPushes(script) = 1
    /\ NumPops(script) = 2

(* C3: on every control-flow path of a non-critical stub the executed      *)
(* pops equal the executed pushes when the stub exits: one push and one    *)
(* pop on the normal return and on every exception path after the native   *)
(* call, none of both on the monitor-enter exception path, and never two   *)
(* pops on one path.                                                       *)
C3_PopsMatchPushes ==
    /\ pops <= 1
    /\ (~in.is_critical_native /\ Exited) =>
          /\ pops = pushes
          /\ pops = (IF "monitor_enter_exception_slow_path" \in via THEN 0 ELSE 1)

\* The early exception poll of a @FastNative reference return was taken and
\* the stub left through DeliverPendingException after one pop.
C3_Witness ==
    /\ xst = "delivered"
    /\ in.is_fast_native /\ reference_return(in)
    /\ "exception_slow_path" \in via
    /\ pops = 1

(* C4: the script of every valid @CriticalNative method (static, not       *)
(* synchronized, no reference in the shorty) holds no CreateJObject and no *)
(* valid reference offset in a MoveArguments, no call of JniMethodStart*,  *)
(* JniMethodEnd* or JniDecodeReferenceResult, no StoreStackPointerToThread,*)
(* no load of the JNIEnv, no push or pop of the local reference frame, no  *)
(* ExceptionPoll, no SuspendCheck and no Increase/DecreaseFrameSize.  It   *)
(* is BuildFrame(main_out_arg_size, no method register), the shuffle whose *)
(* first entry moves the method register to the hidden argument register,  *)
(* the indirect call or jump, optional fix-ups of the return value, and,   *)
(* without a tail call, RemoveFrame(main_out_arg_size, may_suspend=false). *)
IsReturnFixUp(o) == o.op \in {"Move", "SignExtend", "ZeroExtend"}

C4_CriticalShape ==
    (Compiled /\ in.is_critical_native /\ ValidAttributes(in)) =>
        LET n == Len(script)
        IN  /\ \A i \in 1..n :
                 /\ script[i].op \notin
                        {"CreateJObject", "StoreStackPointerToThread", "LoadRawPtrFromThread",
                         "ExceptionPoll", "SuspendCheck", "IncreaseFrameSize",
                         "DecreaseFrameSize", "CallFromThread"}
                 /\ ~IsJniStartCall(script[i])
                 /\ ~IsJniEndCall(script[i])
                 /\ ~IsDecodeCall(script[i])
                 /\ script[i].z # "JniEnvOffset"
                 /\ \A k \in 1..Len(script[i].args) :
                        script[i].args[k].ref = kInvalidReferenceOffset
            /\ NumPushes(script) = 0
            /\ NumPops(script) = 0
            /\ n >= 3
            /\ script[1] = BuildFrame(in.main_out, NoRegister)
            /\ script[2].op = "MoveArguments"
            /\ Len(script[2].args) = NumParams(in) + 1
            /\ script[2].args[1] =
                   Arg(LocReg(HiddenArgumentRegister, kRawPointerSize(in)),
                       LocReg(MrMethodRegister, kRawPointerSize(in)),
                       kInvalidReferenceOffset)
            /\ script[3] = (IF UseTailCall(in)
                            THEN JumpReg(HiddenArgumentRegister, "EntryPointFromJniOffset")
                            ELSE Call(HiddenArgumentRegister, "EntryPointFromJniOffset"))
            /\ UseTailCall(in) => n = 3
            /\ ~UseTailCall(in) =>
                   /\ script[n] = RemoveFrame(in.main_out, FALSE)
                   /\ \A i \in 4..(n - 1) : IsReturnFixUp(script[i])

\* A compiled @CriticalNative stub with two parameters, a fix-up of the
\* return value and a RemoveFrame that may not suspend.
C4_Witness ==
    /\ Compiled
    /\ in.is_critical_native /\ ValidAttributes(in)
    /\ NumParams(in) = MaxParams
    /\ Len(script) = 5
    /\ script[4].op = "Move"
    /\ script[5] = RemoveFrame(in.main_out, FALSE)

(* C5: the script of every @FastNative method (of a tuple that satisfies   *)
(* the invariants on the attributes, so not also @CriticalNative) holds no *)
(* call of pJniMethodStart or pJniMethodStartSynchronized and no call of a *)
(* pJniMethodEnd* entrypoint; it holds exactly one call of                 *)
(* pJniDecodeReferenceResult when the return type is a reference and no    *)
(* end or decode call at all otherwise.                                    *)
C5_FastNativeCalls ==
    (Compiled /\ in.is_fast_native /\ ValidAttributes(in)) =>
        /\ Count(script, IsJniStartCall) = 0
        /\ Count(script, IsJniEndCall) = 0
        /\ Count(script, IsDecodeCall) = (IF reference_return(in) THEN 1 ELSE 0)

\* A compiled synchronized @FastNative stub with a reference return, whose
\* one call of an end entrypoint is the decoding of the result.
C5_Witness ==
    /\ Compiled
    /\ in.is_fast_native /\ ValidAttributes(in)
    /\ in.is_synchronized
    /\ reference_return(in)
    /\ Count(script, IsDecodeCall) = 1

(* C6: with method_register read as Live (a register) or Empty             *)
(* (NoRegister), over the emission of a non-critical stub it goes from     *)
(* Live to Empty exactly in the steps that emit the JniMethodStart* call   *)
(* or the main native call, and every operation that takes                 *)
(* method_register as an operand (the jclass move of phase 2, the lock     *)
(* object of a static method, the source of the move or shuffle of phase   *)
(* 4, the native Call, the load of the Baker read barrier slow path) is    *)
(* emitted with a register, never with NoRegister.                         *)
NewOps == SubSeq(script', Len(script) + 1, Len(script'))

NamesNoRegister(o) ==
    \/ o.op \in {"Call", "Move", "Load", "Store"} /\ NoRegister \in {o.x, o.y}
    \/ \E k \in 1..Len(o.args) : NoRegister \in {o.args[k].src.reg, o.args[k].dest.reg}

C6_Step ==
    ~in.is_critical_native =>
        /\ (method_register # NoRegister /\ method_register' = NoRegister)
              <=> \E i \in 1..Len(NewOps) :
                      IsJniStartCall(NewOps[i]) \/ IsNativeCall(NewOps[i])
        /\ \A i \in 1..Len(method_reads') : method_reads'[i] # NoRegister
        /\ \A i \in 1..Len(NewOps) : ~NamesNoRegister(NewOps[i])

C6_MethodRegisterLiveness == [][C6_Step]_vars

\* The native call of a static synchronized normal native method was
\* emitted: the register was live for the jclass move, for the lock object
\* and for the call, and is empty now.
C6_Witness ==
    /\ pc = "phase5"
    /\ IsNormalNative(in) /\ in.is_static /\ in.is_synchronized
    /\ method_register = NoRegister
    /\ Len(method_reads) >= 3
    /\ IsNativeCall(script[Len(script)])

(* C7: in every non-critical stub the JNIEnv* (jni_env_reg) is written to  *)
(* the first parameter position of `main` by the operation between the     *)
(* argument shuffle of phase 4 and the native Call; the second position    *)
(* receives the jclass (static: the method pointer) or the jobject of      *)
(* `this` (instance); the k-th parameter of the shorty is delivered to the *)
(* position k + 2, and the shuffle lists its destinations in that order.   *)
SamePlace(a, b) == a.reg = b.reg /\ a.off = b.off

NativeCallAt(s) == CHOOSE c \in 1..Len(s) : IsNativeCall(s[c])
FirstShuffleAt(s) ==
    CHOOSE i \in 1..Len(s) :
        s[i].op = "MoveArguments" /\ \A j \in 1..(i - 1) : s[j].op # "MoveArguments"

\* Whether s holds an entry that moves the place src to the place dest.
Moves(entries, src, dest) ==
    \E e \in 1..Len(entries) :
        SamePlace(entries[e].src, src) /\ SamePlace(entries[e].dest, dest)

C7_NativeParameterOrder ==
    (Compiled /\ ~in.is_critical_native) =>
        LET c == NativeCallAt(script)
            ptr == kRawPointerSize(in)
            cfs == in.frame_size + in.main_out
            env == script[c - 1]
            shuffle == script[c - 2].args
            spill == script[FirstShuffleAt(script)].args
            home(i) == IF MrInReg(in, i) THEN LocReg(MrRegister(in, i), 0)
                       ELSE LocStack(MrStackOffset(in, cfs, i), 0)
            slot(i) == LocStack(MrStackOffset(in, cfs, i), 0)
            first == JniLoc(in, 1, ptr)
            second == JniLoc(in, 2, ptr)
            shuffled == IF in.is_fast_native THEN NumParams(in) + 1
                        ELSE IF in.jni_regs <= 2 THEN 1
                        ELSE IF in.jni_regs <= NumParams(in) + 2 THEN in.jni_regs - 1
                        ELSE NumParams(in) + 1
        IN  /\ Cardinality({i \in 1..Len(script) : IsNativeCall(script[i])}) = 1
            /\ c > 2
            \* JNIEnv* goes to the first position, after the shuffle.
            /\ IF first.reg # ""
               THEN env = Move(first.reg, jni_env_reg, ptr)
               ELSE env = StoreFrame(first.off, jni_env_reg, ptr)
            /\ script[c - 2].op = "MoveArguments"
            \* jclass or `this` goes to the second position.
            /\ SamePlace(shuffle[1].dest, second)
            /\ IF in.is_static
               THEN /\ shuffle[1].ref = kInvalidReferenceOffset
                    /\ \/ shuffle[1].src.reg \in {MrMethodRegister, callee_save_temp}
                       \/ SamePlace(shuffle[1].src,
                                    LocStack(in.main_out + MrMethodStackOffset, ptr))
               ELSE /\ shuffle[1].ref = MrStackOffset(in, cfs, 1)
                    /\ SamePlace(shuffle[1].src,
                                 IF in.is_fast_native THEN home(1) ELSE slot(1))
            \* The destinations of the shuffle are the positions 2, 3, ... in order.
            /\ Len(shuffle) = shuffled
            /\ \A e \in 1..Len(shuffle) : SamePlace(shuffle[e].dest, JniLoc(in, e + 1, ptr))
            \* The k-th parameter reaches the position k + 2.
            /\ \A k \in 1..NumParams(in) :
                  LET i == IF in.is_static THEN k ELSE k + 1
                      dest == JniLoc(in, k + 2, ptr)
                  IN  IF in.is_fast_native THEN Moves(shuffle, home(i), dest)
                      ELSE IF dest.reg # ""
                           THEN Moves(spill, home(i), slot(i)) /\ Moves(shuffle, slot(i), dest)
                           ELSE Moves(spill, home(i), dest)

\* A compiled normal native instance method with two parameters, of which
\* the first is passed to the native code in a register and the second on
\* the stack.
C7_Witness ==
    /\ Compiled
    /\ IsNormalNative(in) /\ ~in.is_static
    /\ NumParams(in) = MaxParams
    /\ in.jni_regs = MaxJniRegArgs
    /\ in.mr_regs = 1
    /\ Len(script[NativeCallAt(script) - 2].args) = 2

(* C8: for every attribute tuple of {static, virtual} x {plain,            *)
(* synchronized} x {plain, fast, critical} x {void, int, long, float,      *)
(* reference return} that satisfies the invariants on the attributes and   *)
(* is not @FastNative and synchronized at once, a debug-build compile runs *)
(* every phase through the finalization with no DCHECK, CHECK or fatal log *)
(* firing; a synchronized @FastNative method never gets there, because     *)
(* DCHECK(!is_fast_native) of line 772 fires in phase 8.3.                 *)
DebugCompileOfValidTuple == in.is_native /\ in.debug /\ ValidAttributes(in)

C8_ValidTuplesCompile ==
    /\ (DebugCompileOfValidTuple /\ ~(in.is_fast_native /\ in.is_synchronized)) =>
          /\ pc # "fatal"
          /\ failure = ""
          /\ pc # "done" => ENABLED EmitNext
    /\ (DebugCompileOfValidTuple /\ in.is_fast_native /\ in.is_synchronized) =>
          /\ ~Compiled
          /\ failure \in {"", "DCHECK(!is_fast_native) line 772"}

\* The statement without the exception of synchronized @FastNative methods.
C8_AsStated ==
    DebugCompileOfValidTuple => pc # "fatal"

\* A debug build compiled a synchronized normal native method with a
\* reference return.
C8_Witness ==
    /\ Compiled
    /\ DebugCompileOfValidTuple
    /\ IsNormalNative(in) /\ in.is_synchronized
    /\ reference_return(in)
    /\ HasOp(script, "DeliverPendingException")

(* C9: a debug build rejects the compile of a native method fatally, with  *)
(* no calling convention or assembler created and no operation emitted,    *)
(* exactly when the method is @FastNative and @CriticalNative, or          *)
(* @CriticalNative and not static, or @CriticalNative and synchronized, or *)
(* @CriticalNative with a reference among the characters of its shorty     *)
(* (return type or parameter); a release build makes none of these four    *)
(* checks and goes on to create the conventions and to emit.  (A method    *)
(* without the native bit fails CHECK(is_native) in both builds.)          *)
RejectedAttributes(r) ==
    \/ r.is_fast_native /\ r.is_critical_native
    \/ r.is_critical_native /\ ~r.is_static
    \/ r.is_critical_native /\ r.is_synchronized
    \/ r.is_critical_native /\ \E i \in 1..Len(r.shorty) : r.shorty[i] = "L"

AttributeChecks ==
    {"LOG(FATAL) both @CriticalNative and @FastNative", "CHECK(is_static)",
     "CHECK(!is_synchronized)", "CHECK_NE(kPrimNot, GetType(shorty[i]))"}

C9_Step ==
    in.is_native =>
        \* The validation is the first step, and it decides as stated.
        /\ pc = "start" =>
              /\ pc' = "fatal" <=> (in.debug /\ RejectedAttributes(in))
              /\ pc' = "fatal" => failure' \in AttributeChecks
              /\ pc' # "fatal" => pc' = "conventions"
              /\ script = <<>> /\ script' = <<>>
        \* None of the four checks fires later, and none in a release build.
        /\ (pc # "start" \/ ~in.debug) => failure' \notin AttributeChecks
        \* A release build goes on to the prologue.
        /\ (~in.debug /\ pc \in {"start", "conventions", "phase1"}) =>
              /\ pc' # "fatal"
              /\ pc = "phase1" => Len(script') > 0

C9_DebugValidation == [][C9_Step]_vars

\* A debug build rejected a static @CriticalNative method for the reference
\* it returns, with nothing emitted.
C9_Witness ==
    /\ pc = "fatal"
    /\ in.debug
    /\ in.is_critical_native /\ in.is_static /\ ~in.is_synchronized /\ ~in.is_fast_native
    /\ failure = "CHECK_NE(kPrimNot, GetType(shorty[i]))"
    /\ script = <<>>

(* C10: with the CFA offset followed in emission order (set by BuildFrame, *)
(* raised by IncreaseFrameSize and AdjustCFAOffset(+n), lowered by         *)
(* DecreaseFrameSize and AdjustCFAOffset(-n), unchanged across             *)
(* RemoveFrame), it equals static_cast<int>(current_frame_size) at the     *)
(* assertion points after BuildFrame (line 234), around RemoveFrame (lines *)
(* 703, 709) and before DeliverPendingException (line 789), for every      *)
(* attribute tuple and all out-args sizes: every rewind or re-growth of a  *)
(* slow path stands next to an AdjustCFAOffset of the opposite sign, the   *)
(* unsigned negation -main_out_arg_size arriving as the exact negative.    *)
CfaAssertions ==
    {"DCHECK_EQ(cfa, current_frame_size) line 234",
     "DCHECK_EQ(cfa, current_frame_size) line 703",
     "DCHECK_EQ(cfa, current_frame_size) line 709",
     "DCHECK_EQ(cfa, current_frame_size) line 789"}

\* The frame size each assertion point is reached with.
ExpectedCfaChecks(r) ==
    LET body == IF r.is_critical_native THEN r.main_out ELSE r.frame_size
    IN  <<[line |-> 234, cfa |-> body, size |-> body],
          [line |-> 703, cfa |-> body, size |-> body]>>
        \o Opt(~r.is_critical_native \/ ~r.tail_call,
               <<[line |-> 709, cfa |-> body, size |-> body]>>)
        \o Opt(~r.is_critical_native,
               <<[line |-> 789, cfa |-> r.frame_size, size |-> r.frame_size]>>)

PairedAdjustment(s, i) ==
    \/ /\ s[i].n > 0
       /\ s[i].n = in.main_out
       /\ i < Len(s)
       /\ s[i + 1] = DecreaseFrameSize(in.main_out)
    \/ /\ s[i].n < 0
       /\ s[i].n = 0 - in.main_out
       /\ i > 1
       /\ s[i - 1] = IncreaseFrameSize(in.main_out)

C10_CfaMatchesFrameSize ==
    /\ failure \notin CfaAssertions
    /\ \A i \in 1..Len(cfa_checks) : cfa_checks[i].cfa = cfa_checks[i].size
    /\ \A i \in 1..Len(script) :
          script[i].op = "AdjustCFAOffset" => PairedAdjustment(script, i)
    /\ Compiled =>
          /\ cfa_checks = ExpectedCfaChecks(in)
          /\ cfa = CfaAfter(0, script)

\* A debug build compiled a @FastNative method with a reference return and
\* a non-empty out-args area: the suspend-check slow path re-grows the frame
\* and adjusts the CFA offset by the negated size.
C10_Witness ==
    /\ Compiled
    /\ in.debug
    /\ in.is_fast_native /\ reference_return(in)
    /\ in.main_out > 0
    /\ \E i \in 1..Len(script) : script[i] = AdjustCFAOffset(0 - in.main_out)
    /\ Len(cfa_checks) = 4

-----------------------------------------------------------------------------
(* C11: the order of the main path of a normal native method.              *)

\* What an emitted operation is in the terms of the phase list: the class of
\* the entrypoint a call goes to, the label of a poll or a Bind, the member a
\* Load or Store of the JNI environment touches, and for the operations that
\* put a value in a parameter position only that they do.
C11_Kind(o) ==
    CASE IsJniStartCall(o) -> <<"Call", "JniMethodStart*">>
      [] IsJniEndCall(o) -> <<"Call", "JniMethodEnd*">>
      [] IsNativeCall(o) -> <<"Call", "EntryPointFromJniOffset">>
      [] IsDecodeCall(o) -> <<"Call", "pJniDecodeReferenceResult">>
      [] o.op \in {"Move", "Store"} /\ o.y = jni_env_reg /\ o.z = "" -> <<"JNIEnv*", "">>
      [] o.op = "Load" /\ o.y = "SP" /\ o.x = callee_save_temp -> <<"Load", "method">>
      [] o.op = "Load" /\ o.y = "SP" -> <<"Load", "frame">>
      [] o.op = "Store" /\ o.x = "SP" -> <<"Store", "frame">>
      [] o.op \in {"Move", "StoreRawPtr", "Copy"} -> <<"parameter", "">>
      [] o.op = "CreateJObject" -> <<"CreateJObject", "">>
      [] OTHER -> <<o.op, o.z>>

\* The main path: the operations up to the RemoveFrame.
MainPath(s) ==
    IF HasOp(s, "RemoveFrame")
    THEN SubSeq(s, 1, CHOOSE i \in 1..Len(s) : s[i].op = "RemoveFrame")
    ELSE s

C11_Push ==
    << <<"Load", "LocalRefCookieOffset">>, <<"Load", "SegmentStateOffset">>,
       <<"Store", "LocalRefCookieOffset">> >>
C11_Pop ==
    << <<"Load", "LocalRefCookieOffset">>, <<"Store", "SegmentStateOffset">>,
       <<"Store", "LocalRefCookieOffset">> >>

\* The phase list of a normal native method.  Between the phases it names
\* stand the operations that belong to them and that the list leaves unnamed:
\* the Load of the method pointer ahead of the second MoveArguments, the
\* growth of the out-args area for the end call, and the parameters of the
\* end call (the result, the unlock object, the thread).
C11_MainPathOrder(r) ==
    << <<"BuildFrame", "">> >>
    \o Opt(kUseReadBarrier(r) /\ r.is_static,
           << <<"TestGcMarking", "jclass_read_barrier_slow_path">>,
              <<"Bind", "jclass_read_barrier_return">> >>)
    \o << <<"StoreStackPointerToThread", "TopOfManagedStackOffset">>,
          <<"IncreaseFrameSize", "">>,
          <<"MoveArguments", "">> >>
    \o Opt(r.is_synchronized,
           << IF r.is_static THEN <<"parameter", "">> ELSE <<"CreateJObject", "">> >>)
    \o << <<"GetCurrentThread", "">>, <<"Call", "JniMethodStart*">> >>
    \o Opt(r.is_synchronized, << <<"ExceptionPoll", "monitor_enter_exception_slow_path">> >>)
    \o << <<"LoadRawPtrFromThread", "JniEnvOffset">> >>
    \o C11_Push
    \o Opt(~r.is_static \/ ~JniInReg(r, 2), << <<"Load", "method">> >>)
    \o << <<"MoveArguments", "">>, <<"JNIEnv*", "">>,
          <<"Call", "EntryPointFromJniOffset">> >>
    \o Opt(SizeOfReturnValue(r) # 0, << <<"Store", "frame">> >>)
    \o Opt(r.end_out > r.main_out, << <<"IncreaseFrameSize", "">> >>)
    \o Opt(reference_return(r), << <<"parameter", "">> >>)
    \o Opt(r.is_synchronized,
           << IF ~r.is_static THEN <<"CreateJObject", "">>
              ELSE IF JniInReg(r, IF reference_return(r) THEN 2 ELSE 1)
                   THEN <<"Load", "frame">> ELSE <<"parameter", "">> >>)
    \o << <<"GetCurrentThread", "">>, <<"Call", "JniMethodEnd*">> >>
    \o Opt(SizeOfReturnValue(r) # 0, << <<"Load", "frame">> >>)
    \o C11_Pop
    \o << <<"DecreaseFrameSize", "">>,
          <<"ExceptionPoll", "exception_slow_path">>,
          <<"RemoveFrame", "may_suspend">> >>

\* C11: the main path of every compiled normal native method, operation by
\* operation, is the phase list in its order, each phase once: BuildFrame,
\* the read-barrier test and its return label when read barriers are on and
\* the method is static, StoreStackPointerToThread, IncreaseFrameSize by the
\* out-args size of `main`, the spilling MoveArguments, the lock object when
\* synchronized, GetCurrentThread and the JniMethodStart* call, the
\* monitor-enter poll when synchronized, the JNIEnv* load, the push, the
\* MoveArguments of the native call, the JNIEnv* placement, the native call,
\* the return spill, the JniMethodEnd* call, the return reload, the pop,
\* DecreaseFrameSize, ExceptionPoll and RemoveFrame with may_suspend.
C11_NormalNativeOrder ==
    (Compiled /\ IsNormalNative(in)) =>
        LET main == MainPath(script)
        IN  /\ [i \in 1..Len(main) |-> C11_Kind(main[i])] = C11_MainPathOrder(in)
            /\ main[IF kUseReadBarrier(in) /\ in.is_static THEN 5 ELSE 3].n = in.main_out

\* A synchronized static method returning a reference, compiled with read
\* barriers: every optional phase of the list is there.
C11_Witness ==
    /\ Compiled /\ IsNormalNative(in)
    /\ in.is_synchronized /\ in.is_static /\ reference_return(in) /\ kUseReadBarrier(in)
    /\ in.end_out > in.main_out
    /\ Len(MainPath(script)) = Len(C11_MainPathOrder(in))

-----------------------------------------------------------------------------
(* C12: a static @FastNative method that returns a reference, compiled     *)
(* with read barriers.                                                     *)

C12_Case(r) ==
    /\ r.is_static /\ r.is_fast_native /\ ~r.is_critical_native
    /\ reference_return(r) /\ kUseReadBarrier(r)

\* The kinds of the operations of s that the scenario names, in the order of s.
\* The pop is told from the push by its Store to the segment state.
C12_Named ==
    { <<"TestGcMarking", "jclass_read_barrier_slow_path">>,
      <<"Bind", "jclass_read_barrier_return">>,
      <<"MoveArguments", "">>,
      <<"Call", "EntryPointFromJniOffset">>,
      <<"ExceptionPoll", "exception_slow_path">>,
      <<"SuspendCheck", "suspend_check_slow_path">>,
      <<"Store", "SegmentStateOffset">>,
      <<"Call", "pJniDecodeReferenceResult">>,
      <<"RemoveFrame", "may_suspend">> }

C12_NamedKinds(s) ==
    SelectSeq([i \in 1..Len(s) |-> C11_Kind(s[i])], LAMBDA k : k \in C12_Named)

\* The slow-path trailers: what follows the RemoveFrame.
Trailers(s) == SubSeq(s, Len(MainPath(s)) + 1, Len(s))

\* The trailers hold the read-barrier block, from its Bind to a
\* Jump(jclass_read_barrier_return) that is the last operation of the block.
C12_ReadBarrierBlock(t) ==
    \E i, j \in 1..Len(t) :
        /\ i < j
        /\ t[i] = Bind("jclass_read_barrier_slow_path")
        /\ t[j] = Jump("jclass_read_barrier_return")
        /\ \A k \in (i + 1)..j : t[k].op # "Bind"
        /\ j = Len(t) \/ t[j + 1].op = "Bind"

\* C12: the main path of such a method has, in this order and once each, the
\* TestGcMarking / Bind(return) pair, one MoveArguments (no spilling pass),
\* Call(EntryPointFromJniOffset), the early ExceptionPoll, SuspendCheck,
\* Call(pJniDecodeReferenceResult), the pop of the local reference frame and
\* RemoveFrame; the call that decodes the reference comes before the pop.
\* The trailers hold the read-barrier block, which ends in Jump(return).
C12_FastReferenceOrder ==
    (Compiled /\ C12_Case(in)) =>
        /\ C12_NamedKinds(MainPath(script))
              = << <<"TestGcMarking", "jclass_read_barrier_slow_path">>,
                   <<"Bind", "jclass_read_barrier_return">>,
                   <<"MoveArguments", "">>,
                   <<"Call", "EntryPointFromJniOffset">>,
                   <<"ExceptionPoll", "exception_slow_path">>,
                   <<"SuspendCheck", "suspend_check_slow_path">>,
                   <<"Call", "pJniDecodeReferenceResult">>,
                   <<"Store", "SegmentStateOffset">>,
                   <<"RemoveFrame", "may_suspend">> >>
        /\ C12_ReadBarrierBlock(Trailers(script))

\* The order as the claim words it: the pop, then the call that decodes.
C12_AsStated ==
    (Compiled /\ C12_Case(in)) =>
        /\ C12_NamedKinds(MainPath(script))
              = << <<"TestGcMarking", "jclass_read_barrier_slow_path">>,
                   <<"Bind", "jclass_read_barrier_return">>,
                   <<"MoveArguments", "">>,
                   <<"Call", "EntryPointFromJniOffset">>,
                   <<"ExceptionPoll", "exception_slow_path">>,
                   <<"SuspendCheck", "suspend_check_slow_path">>,
                   <<"Store", "SegmentStateOffset">>,
                   <<"Call", "pJniDecodeReferenceResult">>,
                   <<"RemoveFrame", "may_suspend">> >>
        /\ C12_ReadBarrierBlock(Trailers(script))

C12_Witness ==
    /\ Compiled /\ C12_Case(in) /\ ValidAttributes(in)
    /\ \E i \in 1..Len(script) : IsDecodeCall(script[i]) /\ i < Len(MainPath(script))
    /\ C12_ReadBarrierBlock(Trailers(script))

-----------------------------------------------------------------------------
(* C13: the tail call of @CriticalNative and the may_suspend of            *)
(* RemoveFrame.                                                            *)

\* The convention asks for a fix-up of the return value after the native code.
NeedsReturnFixUp(r) ==
    \/ RequiresSmallResultTypeExtension(r)
    \/ SizeOfReturnValue(r) # 0 /\ JniReturnRegister(r) # MrReturnRegister(r)

TailCallChecks ==
    { "CHECK(!is_critical_native || !UseTailCall()) line 529",
      "CHECK(!is_critical_native || !UseTailCall()) line 568" }

C13_Critical(r) == r.is_critical_native /\ ValidAttributes(r)

\* C13: in the stub of a @CriticalNative method whose convention uses a tail
\* call there is never a RemoveFrame, a SignExtend, a ZeroExtend or a Move,
\* and the compiled stub ends in Jump(hidden argument register,
\* EntryPointFromJniOffset), its only transfer to the native code; when the
\* convention asks for a fix-up of the return value as well, the compile ends
\* in one of the two CHECKs, in a debug and in a release build, and is never
\* completed.  Without a tail call the compiled stub has
\* Call(hidden argument register, EntryPointFromJniOffset) and, after it,
\* only fix-ups and RemoveFrame(main_out_arg_size, may_suspend = false) as
\* the last operation.  The compiled stub of a method that is not
\* @CriticalNative has one RemoveFrame, with may_suspend = true.
C13_TailCall ==
    /\ (C13_Critical(in) /\ UseTailCall(in)) =>
          /\ \A i \in 1..Len(script) :
                script[i].op \notin {"RemoveFrame", "SignExtend", "ZeroExtend", "Move", "Call"}
          /\ Compiled =>
                /\ script[Len(script)] = JumpReg(HiddenArgumentRegister, "EntryPointFromJniOffset")
                /\ Count(script, IsNativeCall) = 1
                /\ ~NeedsReturnFixUp(in)
          /\ NeedsReturnFixUp(in) =>
                /\ pc \notin {"phase6", "phase7", "phase8", "phase9"}
                /\ pc = "fatal" => failure \in TailCallChecks
    /\ (Compiled /\ C13_Critical(in) /\ ~UseTailCall(in)) =>
          /\ Count(script, IsNativeCall) = 1
          /\ script[NativeCallAt(script)]
                = Call(HiddenArgumentRegister, "EntryPointFromJniOffset")
          /\ script[Len(script)] = RemoveFrame(in.main_out, FALSE)
          /\ \A i \in (NativeCallAt(script) + 1)..(Len(script) - 1) : IsReturnFixUp(script[i])
    /\ (Compiled /\ ~in.is_critical_native) =>
          /\ Count(script, LAMBDA o : o.op = "RemoveFrame") = 1
          /\ \A i \in 1..Len(script) :
                script[i].op = "RemoveFrame" => script[i].z = "may_suspend"

\* A compile for a convention that asks for a tail call and for a sign
\* extension of the result has ended in the CHECK of line 529.
C13_Witness ==
    /\ C13_Critical(in) /\ UseTailCall(in) /\ RequiresSmallResultTypeExtension(in)
    /\ pc = "fatal" /\ failure \in TailCallChecks

\* The other cases of C13: a completed tail-call stub, the CHECK of line 568,
\* a stub without a tail call that extends its result, and a stub that may
\* suspend.
C13_TailCallCompiled == Compiled /\ C13_Critical(in) /\ UseTailCall(in)
C13_MoveChecked ==
    /\ C13_Critical(in) /\ UseTailCall(in) /\ ~in.debug
    /\ failure = "CHECK(!is_critical_native || !UseTailCall()) line 568"
C13_NoTailCallFixUp ==
    /\ Compiled /\ C13_Critical(in) /\ ~UseTailCall(in)
    /\ HasOp(script, "ZeroExtend")
C13_NonCritical == Compiled /\ ~in.is_critical_native /\ reference_return(in)

-----------------------------------------------------------------------------
(* C14: the entrypoint of the end call.                                    *)

IsEndCall(o) == IsJniEndCall(o) \/ IsDecodeCall(o)

\* The table of the end entrypoints, "" where no end call is made.
C14_Table(fast, critical, synchronized, ref) ==
    CASE critical -> ""
      [] fast /\ ref -> "pJniDecodeReferenceResult"
      [] fast /\ ~ref -> ""
      [] ~synchronized /\ ~ref -> "pJniMethodEnd"
      [] ~synchronized /\ ref -> "pJniMethodEndWithReference"
      [] synchronized /\ ~ref -> "pJniMethodEndSynchronized"
      [] OTHER -> "pJniMethodEndWithReferenceSynchronized"

\* C14: a compiled stub calls an end entrypoint iff the method is not
\* @CriticalNative and is either not @FastNative or returns a reference, it
\* does so once, and the entrypoint is the one the table gives for
\* (fast-native, synchronized, reference return); no method that returns
\* something else than a reference gets a WithReference entrypoint.
C14_EndEntrypoint ==
    Compiled =>
        LET ends == {i \in 1..Len(script) : IsEndCall(script[i])}
            want == C14_Table(in.is_fast_native, in.is_critical_native,
                              in.is_synchronized, reference_return(in))
        IN  /\ (ends # {}) <=>
                   (~in.is_critical_native /\ (~in.is_fast_native \/ reference_return(in)))
            /\ (ends # {}) <=> (want # "")
            /\ Cardinality(ends) <= 1
            /\ \A i \in ends : script[i].z = want
            /\ ~reference_return(in) =>
                   \A i \in ends :
                       script[i].z \notin {"pJniMethodEndWithReference",
                                           "pJniMethodEndWithReferenceSynchronized"}

\* A synchronized normal native method that returns a reference has called
\* pJniMethodEndWithReferenceSynchronized.
C14_Witness ==
    /\ Compiled /\ IsNormalNative(in) /\ in.is_synchronized /\ reference_return(in)
    /\ \E i \in 1..Len(script) :
           IsCallOf(script[i], {"pJniMethodEndWithReferenceSynchronized"})

-----------------------------------------------------------------------------
(* C15: the top of the managed stack at the calls into the runtime and     *)
(* into the native code.                                                   *)

\* C15: when the execution of a stub of a method that is not @CriticalNative
\* stands at the JniMethodStart* call, at the native call, or at the
\* JniMethodEnd* / JniDecodeReferenceResult call, on whatever path it came,
\* StoreStackPointerToThread has been executed and nothing has clobbered the
\* top of the managed stack since; and when it stands at
\* Call(pJniDecodeReferenceResult) after the suspend-check slow path, the
\* stack pointer was stored, then pTestSuspend was called, then the stack
\* pointer was stored again.
C15_StackTopStored ==
    (xst = "running" /\ ~in.is_critical_native) =>
        LET o == script[xpc]
        IN  /\ (IsJniStartCall(o) \/ IsNativeCall(o) \/ IsEndCall(o)) =>
                   /\ stack_top # <<>>
                   /\ stack_top[1] = "store"
                   /\ stack_top[Len(stack_top)] = "store"
            /\ (IsDecodeCall(o) /\ "suspend_check_slow_path" \in via) =>
                   stack_top = <<"store", "suspend", "store">>

\* The execution stands at Call(pJniDecodeReferenceResult) and came through
\* the suspend-check slow path.
C15_Witness ==
    /\ xst = "running" /\ ~in.is_critical_native /\ ValidAttributes(in)
    /\ IsDecodeCall(script[xpc])
    /\ "suspend_check_slow_path" \in via
    /\ Len(stack_top) = 3

-----------------------------------------------------------------------------
(* C16: the call of JniMethodStart*().                                     *)

\* The operation that puts the current thread in the native parameter at pos,
\* and the call that follows it.
C16_ThreadAt(r, pos) ==
    IF JniInReg(r, pos) THEN GetCurrentThreadReg(JniRegister(r, pos))
    ELSE GetCurrentThreadStack(JniStackOffset(r, pos))
C16_StartCall(r, pos, entrypoint) ==
    IF JniInReg(r, pos) THEN Call(JniRegister(r, pos), entrypoint)
    ELSE CallFromThread(entrypoint)

\* The managed stack slot of `this` while the out-args area of `main` is there.
C16_ThisSlot(r) == r.frame_size + r.main_out + kRawPointerSize(r)

\* The operation that puts the lock object in the first native parameter.
C16_LockObject(r) ==
    IF r.is_static
    THEN IF JniInReg(r, 1) THEN Move(JniRegister(r, 1), MrMethodRegister, kRawPointerSize(r))
         ELSE StoreRawPtr(JniStackOffset(r, 1), MrMethodRegister)
    ELSE IF JniInReg(r, 1) THEN CreateJObjectReg(JniRegister(r, 1), C16_ThisSlot(r), FALSE)
         ELSE CreateJObjectStack(JniStackOffset(r, 1), C16_ThisSlot(r), FALSE)

IsMonitorEnterPoll(o) == o = ExceptionPoll("monitor_enter_exception_slow_path")

\* C16: a compiled stub calls a JniMethodStart entrypoint once when the
\* method is neither @FastNative nor @CriticalNative and never otherwise; the
\* entrypoint is pJniMethodStartSynchronized for a synchronized method and
\* pJniMethodStart for any other, whatever the return type.  Right after the
\* spilling MoveArguments come, for a synchronized method, the lock object in
\* the first parameter position (the method pointer of a static method,
\* CreateJObject of the managed stack slot of `this`, null not allowed, of
\* an instance method), the current thread in the second and the call; for
\* any other method the current thread in the first and the call.  The call
\* is followed by ExceptionPoll(monitor_enter_exception_slow_path) iff the
\* method is synchronized, and that poll is emitted nowhere else.
C16_JniMethodStart ==
    Compiled =>
        LET starts == {i \in 1..Len(script) : IsJniStartCall(script[i])}
            sync == in.is_synchronized
            p == IF sync THEN 2 ELSE 1
            entrypoint == IF sync THEN "pJniMethodStartSynchronized" ELSE "pJniMethodStart"
        IN  /\ Cardinality(starts) = (IF IsNormalNative(in) THEN 1 ELSE 0)
            /\ Count(script, IsMonitorEnterPoll) = (IF IsNormalNative(in) /\ sync THEN 1 ELSE 0)
            /\ \A i \in starts :
                  /\ i > p + 1
                  /\ script[i] = C16_StartCall(in, p, entrypoint)
                  /\ script[i - 1] = C16_ThreadAt(in, p)
                  /\ sync => script[i - 2] = C16_LockObject(in)
                  /\ script[i - p - 1].op = "MoveArguments"
                  /\ i < Len(script)
                  /\ IsMonitorEnterPoll(script[i + 1]) <=> sync

\* A synchronized instance method returning a reference, with the first
\* native parameter in a register and the second on the stack.
C16_Witness ==
    /\ Compiled /\ IsNormalNative(in)
    /\ in.is_synchronized /\ ~in.is_static /\ reference_return(in)
    /\ in.jni_regs = 1
    /\ \E i \in 1..Len(script) : IsJniStartCall(script[i]) /\ script[i].op = "CallFromThread"

\* The same claim for a synchronized static method and for a method that is
\* not synchronized.
C16_StaticLock ==
    /\ Compiled /\ IsNormalNative(in) /\ in.is_synchronized /\ in.is_static
    /\ in.jni_regs = 0
C16_Unlocked == Compiled /\ IsNormalNative(in) /\ ~in.is_synchronized

-----------------------------------------------------------------------------
(* C17: the vectors of the spilling MoveArguments of a normal native       *)
(* method.                                                                 *)

\* Where the managed caller delivered its argument i, at the width size, and
\* the managed stack slot of that argument, while the out-args area of `main`
\* is there.
ManagedSlot(r, i) == MrStackOffset(r, r.frame_size + r.main_out, i)
ManagedSource(r, i, size) ==
    IF MrInReg(r, i) THEN LocReg(MrRegister(r, i), size)
    ELSE LocStack(ManagedSlot(r, i), size)

\* The entries of the first MoveArguments of a script.
SpillEntries(s) == s[FirstShuffleAt(s)].args

\* C17: the spilling MoveArguments of a compiled normal native method has one
\* entry for jclass or `this` and one for each parameter of the shorty.  The
\* first is, for a static method, the method register moved to itself at
\* pointer size with the sentinel offset and, for an instance method, `this`
\* moved from its managed register or stack slot to its managed stack slot,
\* both 4 bytes wide, with the sentinel offset.  The entry of a parameter has
\* a source 8 bytes wide for long and double and 4 otherwise, at the managed
\* register or stack slot of the parameter; its destination is the native
\* stack slot when the native location is on the stack and the managed stack
\* slot when it is a register; a reference with a native stack destination
\* has a destination of pointer size and the managed stack slot as its
\* offset, every other parameter a destination as wide as the source and the
\* sentinel offset.
C17_SpillVectors ==
    (Compiled /\ IsNormalNative(in)) =>
        LET e == SpillEntries(script)
        IN  /\ Len(e) = NumParams(in) + 1
            /\ in.is_static =>
                  e[1] = Arg(LocReg(MrMethodRegister, kRawPointerSize(in)),
                             LocReg(MrMethodRegister, kRawPointerSize(in)),
                             kInvalidReferenceOffset)
            /\ ~in.is_static =>
                  e[1] = Arg(LocStack(ManagedSlot(in, 1), 4), ManagedSource(in, 1, 4),
                             kInvalidReferenceOffset)
            /\ \A k \in 1..NumParams(in) :
                  LET t == Params(in)[k]
                      i == IF in.is_static THEN k ELSE k + 1
                      pos == k + 2
                      on_stack == pos > in.jni_regs
                      src_size == IF t \in {"J", "D"} THEN 8 ELSE 4
                      jobject == t = "L" /\ on_stack
                      dest_size == IF jobject THEN kRawPointerSize(in) ELSE src_size
                  IN  /\ e[k + 1].src = ManagedSource(in, i, src_size)
                      /\ e[k + 1].dest =
                            (IF on_stack THEN LocStack(JniStackOffset(in, pos), dest_size)
                             ELSE LocStack(ManagedSlot(in, i), dest_size))
                      /\ e[k + 1].ref =
                            (IF jobject THEN ManagedSlot(in, i) ELSE kInvalidReferenceOffset)

\* An instance method with a long that goes to a native register and a
\* reference that goes to the native stack, compiled for 8-byte pointers.
C17_Witness ==
    /\ Compiled /\ IsNormalNative(in) /\ ~in.is_static
    /\ Params(in) = <<"J", "L">>
    /\ in.jni_regs = 3 /\ in.ptr = 8
    /\ Len(SpillEntries(script)) = 3
    /\ SpillEntries(script)[3].dest.size = 8
    /\ SpillEntries(script)[3].src.size = 4

C17_StaticSpill ==
    /\ Compiled /\ IsNormalNative(in) /\ in.is_static /\ NumParams(in) = MaxParams

-----------------------------------------------------------------------------
(* C18: every parameter reaches its native location once.                  *)

IsMoveArguments(o) == o.op = "MoveArguments"

\* The entries of the last MoveArguments of a script, the one of the native
\* call.
CallEntries(s) ==
    s[CHOOSE i \in 1..Len(s) :
          IsMoveArguments(s[i]) /\ \A j \in (i + 1)..Len(s) : ~IsMoveArguments(s[j])].args

\* The displacement of the managed arguments while the arguments are moved,
\* the managed stack slot of the managed argument i, and the place where the
\* managed caller delivered it.
ArgDisplacement(r) ==
    IF r.is_critical_native THEN r.main_out ELSE r.frame_size + r.main_out
ArgSlot(r, i) == MrStackOffset(r, ArgDisplacement(r), i)
DeliveredAt(r, i, size) ==
    IF MrInReg(r, i) THEN LocReg(MrRegister(r, i), size) ELSE LocStack(ArgSlot(r, i), size)

\* The entries that write to the place loc.
WritesTo(entries, loc) == {e \in 1..Len(entries) : SamePlace(entries[e].dest, loc)}

\* C18: in a compiled stub every parameter of the shorty is written to its
\* native location by exactly one entry of the MoveArguments.  For a normal
\* native method a parameter with a native stack slot is written there by
\* the spilling MoveArguments, from where the managed caller delivered it,
\* and not by the MoveArguments of the native call; a parameter with a
\* native register is written to it by the MoveArguments of the native call
\* from the managed stack slot the spilling MoveArguments put it in.  For a
\* @FastNative or @CriticalNative method there is one MoveArguments, which
\* takes each parameter from where the managed caller delivered it.  In the
\* MoveArguments of the native call every reference parameter, and `this`,
\* has a destination of pointer size and its managed stack slot as the
\* offset; every other parameter has the sentinel offset.
C18_MovedOnce ==
    Compiled =>
        LET normal == IsNormalNative(in)
            spill == IF normal THEN SpillEntries(script) ELSE <<>>
            call == CallEntries(script)
            extra == IF in.is_critical_native THEN 0 ELSE 2
        IN  /\ Count(script, IsMoveArguments) = (IF normal THEN 2 ELSE 1)
            /\ \A k \in 1..NumParams(in) :
                  LET t == Params(in)[k]
                      i == IF in.is_critical_native \/ in.is_static THEN k ELSE k + 1
                      pos == k + extra
                      on_stack == pos > in.jni_regs
                      native == JniLoc(in, pos, 0)
                      src_size == IF t \in {"J", "D"} THEN 8 ELSE 4
                      inSpill == WritesTo(spill, native)
                      inCall == WritesTo(call, native)
                  IN  /\ Cardinality(inSpill) + Cardinality(inCall) = 1
                      /\ (normal /\ on_stack) =>
                            /\ inCall = {}
                            /\ \A e \in inSpill : spill[e].src = DeliveredAt(in, i, src_size)
                      /\ (normal /\ ~on_stack) =>
                            /\ inSpill = {}
                            /\ \A e \in inCall :
                                  /\ call[e].src = LocStack(ArgSlot(in, i), src_size)
                                  /\ \E f \in 1..Len(spill) :
                                        /\ spill[f].dest = call[e].src
                                        /\ spill[f].src = DeliveredAt(in, i, src_size)
                      /\ ~normal =>
                            \A e \in inCall : call[e].src = DeliveredAt(in, i, src_size)
                      /\ \A e \in inCall :
                            IF t = "L"
                            THEN /\ call[e].dest.size = kRawPointerSize(in)
                                 /\ call[e].ref = ArgSlot(in, i)
                            ELSE call[e].ref = kInvalidReferenceOffset
            /\ (~in.is_static /\ ~in.is_critical_native) =>
                  /\ call[1].dest = JniLoc(in, 2, kRawPointerSize(in))
                  /\ call[1].ref = ArgSlot(in, 1)

\* A normal native instance method with one parameter that goes to a native
\* register and a reference that goes to the native stack.
C18_Witness ==
    /\ Compiled /\ IsNormalNative(in) /\ ~in.is_static
    /\ Params(in) = <<"J", "L">>
    /\ in.jni_regs = 3
    /\ Len(CallEntries(script)) = 2
    /\ Len(SpillEntries(script)) = 3

\* The same claim for a @FastNative method with arguments delivered in
\* registers and on the stack, and for a @CriticalNative method.
C18_FastMoved ==
    /\ Compiled /\ in.is_fast_native /\ ~in.is_static
    /\ Params(in) = <<"L", "J">> /\ in.mr_regs = 2 /\ in.jni_regs = 3
    /\ Len(CallEntries(script)) = 3
C18_CriticalMoved ==
    /\ Compiled /\ in.is_critical_native /\ NumParams(in) = MaxParams
    /\ Len(CallEntries(script)) = MaxParams + 1

-----------------------------------------------------------------------------
(* C19: what a normal native stub reads after the JniMethodStart call.     *)

\* The registers an operation reads.
RegistersRead(o) ==
    CASE o.op = "MoveArguments" ->
            {o.args[e].src.reg : e \in 1..Len(o.args)} \ {""}
      [] o.op \in {"Move", "StoreRawPtr"} -> {o.y}
      [] o.op = "Store" -> {o.x, o.y} \ {"SP"}
      [] o.op = "Load" -> {o.y} \ {"SP"}
      [] o.op \in {"Call", "Jump", "TestMarkBit", "SignExtend", "ZeroExtend"} -> {o.x} \ {""}
      [] OTHER -> {}

\* The registers in which the managed caller delivers the method and the
\* arguments.
ManagedIncomingRegisters ==
    {MrMethodRegister} \cup {MrArgRegs[i] : i \in 1..Len(MrArgRegs)}

AfterJniMethodStart == called \cap JniStartEntrypoints # {}

\* The frame slot of the method pointer and the managed stack slot of `this`
\* while the out-args area is out bytes large.
MethodSlot(out) == out + MrMethodStackOffset
ThisSlot(r, out) == MrStackOffset(r, r.frame_size + out, 1)

\* The out-args area at the end call.
EndOut(r) == IF r.end_out > r.main_out THEN r.end_out ELSE r.main_out

\* The operation that passes the unlock object in the position pos of `end`.
C19_UnlockObject(r, pos) ==
    IF r.is_static
    THEN IF JniInReg(r, pos)
         THEN LoadFrame(JniRegister(r, pos), MethodSlot(EndOut(r)), kRawPointerSize(r))
         ELSE Copy(JniStackOffset(r, pos), MethodSlot(EndOut(r)), kRawPointerSize(r))
    ELSE IF JniInReg(r, pos)
         THEN CreateJObjectReg(JniRegister(r, pos), ThisSlot(r, EndOut(r)), FALSE)
         ELSE CreateJObjectStack(JniStackOffset(r, pos), ThisSlot(r, EndOut(r)), FALSE)

\* C19: once the execution of a normal native stub has called JniMethodStart*,
\* no operation it comes to reads the incoming method register or a managed
\* argument register.  The MoveArguments of the native call takes every
\* argument from the stack: `this` from its managed stack slot and, when the
\* method pointer is an entry of it, the method pointer from the frame slot
\* at main_out_arg_size + MethodStackOffset or from callee_save_temp, which
\* was loaded from that slot.  At the JniMethodEnd* call of a synchronized
\* method the unlock object was passed by CreateJObject of the managed stack
\* slot of `this` (instance) or by a Load or Copy of the method frame slot
\* (static).
C19_NoStaleRegister ==
    (xst = "running" /\ IsNormalNative(in) /\ AfterJniMethodStart) =>
        LET o == script[xpc]
        IN  /\ RegistersRead(o) \cap ManagedIncomingRegisters = {}
            /\ IsMoveArguments(o) =>
                  /\ \A e \in 1..Len(o.args) :
                        \/ o.args[e].src.reg = ""
                        \/ e = 1 /\ in.is_static /\ o.args[e].src.reg = callee_save_temp
                  /\ ~in.is_static =>
                        o.args[1].src = LocStack(ThisSlot(in, in.main_out), kObjectReferenceSize)
                  /\ (in.is_static /\ o.args[1].src.reg = "") =>
                        o.args[1].src = LocStack(MethodSlot(in.main_out), kRawPointerSize(in))
                  /\ (in.is_static /\ o.args[1].src.reg # "") =>
                        script[xpc - 1] = LoadFrame(callee_save_temp, MethodSlot(in.main_out),
                                                    kRawPointerSize(in))
            /\ (o.op = "Load" /\ o.x = callee_save_temp /\ o.y = "SP") =>
                  o.n = MethodSlot(in.main_out)
            /\ (IsJniEndCall(o) /\ in.is_synchronized) =>
                  script[xpc - 2] = C19_UnlockObject(in, IF reference_return(in) THEN 2 ELSE 1)

\* The execution of a synchronized instance method with parameters stands at
\* the JniMethodEnd call, after the MoveArguments of the native call.
C19_Witness ==
    /\ xst = "running" /\ IsNormalNative(in) /\ AfterJniMethodStart
    /\ in.is_synchronized /\ ~in.is_static /\ in.shorty = FrameShorty
    /\ in.jni_regs = MaxJniRegArgs
    /\ IsJniEndCall(script[xpc])

\* The same claim at the MoveArguments of the native call of a static method
\* compiled with Baker read barriers, whose slow path read the method
\* register before the JniMethodStart call, and at the end call of a
\* synchronized static method.
C19_AfterBakerSlowPath ==
    /\ xst = "running" /\ IsNormalNative(in) /\ AfterJniMethodStart
    /\ in.is_static /\ kUseBakerReadBarrier(in)
    /\ "jclass_read_barrier_slow_path" \in via
    /\ IsMoveArguments(script[xpc])
C19_StaticUnlock ==
    /\ xst = "running" /\ IsNormalNative(in) /\ AfterJniMethodStart
    /\ in.is_synchronized /\ in.is_static /\ in.end_out > in.main_out
    /\ IsJniEndCall(script[xpc])

-----------------------------------------------------------------------------
(* C20: the base register of the native call of a method that is not       *)
(* @CriticalNative.                                                        *)

\* The registers an operation writes; a call may write any register.
RegistersWritten(o) ==
    CASE o.op = "MoveArguments" ->
            {o.args[e].dest.reg : e \in 1..Len(o.args)} \ {""}
      [] o.op \in {"Move", "Load", "LoadRawPtrFromThread", "GetCurrentThread",
                   "CreateJObject", "SignExtend", "ZeroExtend"} -> {o.x} \ {"SP"}
      [] OTHER -> {}
IsAnyCall(o) == o.op \in {"Call", "CallFromThread"}

\* The index of the MoveArguments of the native call.
CallShuffleAt(s) ==
    CHOOSE i \in 1..Len(s) :
        IsMoveArguments(s[i]) /\ \A j \in (i + 1)..Len(s) : ~IsMoveArguments(s[j])

\* No operation of s from index a to index b writes the register reg.
Preserved(s, a, b, reg) ==
    \A j \in a..b : reg \notin RegistersWritten(s[j]) /\ ~IsAnyCall(s[j])

\* C20: in the compiled stub of a method that is not @CriticalNative the
\* native call is Call(base, EntryPointFromJniOffset) and base holds the
\* method pointer.  When the method is not static or `jclass` is on the
\* stack, base is callee_save_temp: the operation before the MoveArguments of
\* the native call puts the method pointer there, by a Move from the incoming
\* method register, which nothing wrote and no call clobbered, for
\* @FastNative, and by a Load from the frame slot at main_out_arg_size +
\* MethodStackOffset for normal native.  When the method is static with
\* `jclass` in a register, base is that register and the first entry of the
\* MoveArguments writes the method pointer to it, from the incoming method
\* register for @FastNative and from the frame slot for normal native.
\* Nothing between the operation that writes base and the call writes base.
C20_CallBase ==
    (Compiled /\ ~in.is_critical_native) =>
        LET c == NativeCallAt(script)
            m == CallShuffleAt(script)
            base == script[c].x
            ptr == kRawPointerSize(in)
            slot == LocStack(in.main_out + MrMethodStackOffset, ptr)
        IN  /\ script[c].op = "Call"
            /\ m < c
            /\ Preserved(script, m + 1, c - 1, base)
            /\ (~in.is_static \/ ~JniInReg(in, 2)) =>
                  /\ base = callee_save_temp
                  /\ m > 1
                  /\ callee_save_temp \notin RegistersWritten(script[m])
                  /\ script[m - 1] =
                        (IF in.is_fast_native
                         THEN Move(callee_save_temp, MrMethodRegister, ptr)
                         ELSE LoadFrame(callee_save_temp, slot.off, ptr))
                  /\ in.is_fast_native => Preserved(script, 2, m - 2, MrMethodRegister)
            /\ (in.is_static /\ JniInReg(in, 2)) =>
                  /\ base = JniRegister(in, 2)
                  /\ script[m].args[1].dest = LocReg(base, ptr)
                  /\ script[m].args[1].src =
                        (IF in.is_fast_native THEN LocReg(MrMethodRegister, ptr) ELSE slot)
                  /\ \A e \in 2..Len(script[m].args) : script[m].args[e].dest.reg # base
                  /\ in.is_fast_native => Preserved(script, 2, m - 1, MrMethodRegister)

\* A @FastNative static method whose `jclass` is on the stack: the method
\* pointer went from the method register to callee_save_temp.
C20_Witness ==
    /\ Compiled /\ in.is_fast_native /\ in.is_static /\ in.jni_regs = 1
    /\ NumParams(in) = MaxParams
    /\ script[NativeCallAt(script)].x = callee_save_temp

\* The same claim for a normal native instance method and for static methods
\* whose `jclass` is in a register.
C20_NormalInstance ==
    /\ Compiled /\ IsNormalNative(in) /\ ~in.is_static /\ in.jni_regs = MaxJniRegArgs
    /\ script[NativeCallAt(script)].x = callee_save_temp
C20_NormalStaticInRegister ==
    /\ Compiled /\ IsNormalNative(in) /\ in.is_static
    /\ script[NativeCallAt(script)].x = JniArgRegs[2]
C20_FastStaticInRegister ==
    /\ Compiled /\ in.is_fast_native /\ in.is_static
    /\ script[NativeCallAt(script)].x = JniArgRegs[2]

-----------------------------------------------------------------------------
(* C21: the out-args area of the end call and the frame offsets used after *)
(* it was grown.                                                           *)

\* The stack slot that a frame offset names while the stack is d bytes deep,
\* as its distance below the caller's frame: the same number is the same
\* physical slot whatever the stack pointer.
PhysicalSlot(d, off) == d - off

\* out_arg_size_diff of line 604, 0 when end's out-args area is not larger.
C21_Diff(r) == IF r.end_out > r.main_out THEN r.end_out - r.main_out ELSE 0

IsReturnSpill(o) == o.op = "Store" /\ o.x = "SP" /\ o.y = "ret0"
IsReturnReload(o) == o.op = "Load" /\ o.y = "SP" /\ o.x \in {"ret0", "fp_ret0"}
AfterNativeCall == "EntryPointFromJniOffset" \in called
AfterEndCall == called \cap (JniEndEntrypoints \cup {"pJniDecodeReferenceResult"}) # {}

\* The frame offset from which an operation takes the unlock object.
C21_UnlockSource(o) ==
    CASE o.op = "Load" -> o.n
      [] OTHER -> o.m

\* C21: on every path of the stub of a method that is not @CriticalNative,
\* the only IncreaseFrameSize executed after the native call has the amount
\* end.OutFrameSize() - main_out_arg_size, and it is there exactly when that
\* amount is positive: at the end call the executed increases sum up to
\* main_out_arg_size plus the difference and the stack is the managed frame
\* plus that sum deep.  The return value is stored at
\* main.ReturnValueSaveLocation() and reloaded from that offset plus the
\* difference, which is the same physical slot; the unlock object of a
\* static method is read from the physical slot where BuildFrame put the
\* method pointer, that of an instance method from the managed stack slot of
\* `this` in the caller's frame; and the DecreaseFrameSize after the end
\* call removes main_out_arg_size plus the difference.
C21_EndFrameGrowth ==
    (xst = "running" /\ ~in.is_critical_native) =>
        LET o == script[xpc]
            diff == C21_Diff(in)
            ptr == kRawPointerSize(in)
            save == ReturnValueSaveLocation(in, in.main_out)
        IN  /\ (o.op = "IncreaseFrameSize" /\ AfterNativeCall
                  /\ "suspend_check_slow_path" \notin via) =>
                  /\ diff > 0
                  /\ o.n = diff
                  /\ ~AfterEndCall
                  /\ inc_sum = in.main_out
            /\ (IsJniEndCall(o) \/ IsDecodeCall(o)) =>
                  /\ inc_sum - dec_sum = in.main_out + diff
                  /\ depth = in.frame_size + in.main_out + diff
                  /\ in.is_synchronized =>
                        LET u == script[xpc - 2]
                        IN  IF in.is_static
                            THEN /\ u.op \in {"Load", "Copy"}
                                 /\ PhysicalSlot(depth, C21_UnlockSource(u)) =
                                       PhysicalSlot(in.frame_size, MrMethodStackOffset)
                            ELSE /\ u.op = "CreateJObject"
                                 /\ PhysicalSlot(depth, C21_UnlockSource(u)) =
                                       PhysicalSlot(0, MrStackOffset(in, 0, 1))
            /\ IsReturnSpill(o) =>
                  /\ o.n = save
                  /\ depth = in.frame_size + in.main_out
            /\ IsReturnReload(o) =>
                  /\ o.n = save + diff
                  /\ AfterEndCall
                  /\ PhysicalSlot(depth, o.n) = PhysicalSlot(in.frame_size + in.main_out, save)
            /\ (o.op = "DecreaseFrameSize" /\ AfterEndCall) =>
                  o.n = in.main_out + diff

\* The execution of a synchronized static method that returns a value stands
\* at the reload of the return value, after the frame was grown for the end
\* call from one out-args unit to two.
C21_Witness ==
    /\ xst = "running" /\ IsNormalNative(in)
    /\ in.is_synchronized /\ in.is_static
    /\ in.main_out = OutArgUnit /\ in.end_out = 2 * OutArgUnit
    /\ IsReturnReload(script[xpc])
    /\ script[xpc].n = ReturnValueSaveLocation(in, OutArgUnit) + OutArgUnit
    /\ depth = in.frame_size + 2 * OutArgUnit

\* The same claim for an instance method whose unlock object is `this`, and
\* for an end call that needs no more out-args than the native call had.
C21_InstanceUnlock ==
    /\ xst = "running" /\ IsNormalNative(in)
    /\ in.is_synchronized /\ ~in.is_static /\ in.end_out > in.main_out
    /\ IsJniEndCall(script[xpc])
C21_NoGrowth ==
    /\ xst = "running" /\ IsNormalNative(in) /\ in.end_out <= in.main_out
    /\ in.main_out > 0
    /\ IsReturnReload(script[xpc])

-----------------------------------------------------------------------------
(* C22: the local reference frame that the push opens and the pop closes.  *)

\* C22: in the execution of a stub that pushes a local reference frame,
\* whatever the local reference cookie and the segment state of the JNI
\* environment are at entry and whatever segment state the native code
\* leaves: once the push sequence has run and until the pop sequence has run,
\* saved_cookie_reg holds the cookie of the entry and the cookie field holds
\* the segment state of the entry; where the pop sequence starts, the segment
\* state is the one the native code left; once the pop sequence has run, on
\* the main path or in the exception slow path, the cookie field holds the
\* cookie of the entry again and the segment state is the one of the entry,
\* not the one the native code left.
C22_PopRestoresPush ==
    (xst # "idle" /\ ~in.is_critical_native) =>
        /\ (pushes = 1 /\ pops = 0) =>
              /\ regs[jni_env_reg] = EnvPointer
              /\ regs[saved_cookie_reg] = Word(world.cookie)
              /\ jni_env.LocalRefCookieOffset = Word(world.segment_state)
              /\ (xst = "running" /\ xpc + 2 <= Len(script) /\ PopEndsAt(script, xpc + 2)) =>
                    /\ AfterNativeCall
                    /\ jni_env.SegmentStateOffset = Word(world.native)
        /\ pops = 1 =>
              /\ pushes = 1
              /\ jni_env.LocalRefCookieOffset = Word(world.cookie)
              /\ jni_env.SegmentStateOffset = Word(world.segment_state)

\* The stub returns after the pop, and the cookie, the segment state and
\* what the native code left were three different values.
C22_Witness ==
    /\ xst = "returned" /\ ~in.is_critical_native
    /\ pushes = 1 /\ pops = 1
    /\ AfterNativeCall
    /\ world.cookie # world.segment_state
    /\ world.native # world.segment_state
    /\ world.native # world.cookie
    /\ jni_env.SegmentStateOffset = Word(world.segment_state)

\* The same claim for the pop of the exception slow path of a @FastNative
\* method that returns a reference.
C22_ExceptionPathPop ==
    /\ xst = "delivered" /\ in.is_fast_native /\ reference_return(in)
    /\ pops = 1
    /\ world.native # world.segment_state

-----------------------------------------------------------------------------
(* C23: the return value between the native call and the return.           *)

IsWidthFixUp(o) == o.op \in {"SignExtend", "ZeroExtend"}
IsReturnMove(o) == o.op = "Move" /\ o.x \in {"ret0", "fp_ret0"}
C23_SaveFailure == "CHECK_LT(return_save_location, current_frame_size)"

\* The index of the first operation after the native call and its width
\* fix-up.
C23_AfterCall(s) ==
    LET c == NativeCallAt(s)
    IN  IF c < Len(s) /\ IsWidthFixUp(s[c + 1]) THEN c + 2 ELSE c + 1

\* C23: the compile ends at the CHECK_LT of line 553, in a debug and in a
\* release build, exactly when main.SpillsReturnValue() and the save location
\* is not strictly below the frame size.  In a compiled stub the operation
\* after the native call and its width fix-up is the Store of the native
\* return register at main.ReturnValueSaveLocation() when
\* main.SpillsReturnValue(), and no such Store is anywhere otherwise; the Load
\* of the managed return register from the save location, shifted by what the
\* frame was grown, follows the end call and is followed by the local
\* reference frame pop when the value was spilled, and is nowhere otherwise.
\* When the value is not spilled, that operation is the Move from the native
\* to the managed return register exactly when the method is @FastNative or
\* @CriticalNative, returns a value and the two registers differ.  A normal
\* native method that does not spill has no Store, Load or Move of the
\* return value.
C23_ReturnValue ==
    /\ (pc = "fatal" /\ failure = C23_SaveFailure) =>
          /\ SpillsReturnValue(in)
          /\ ReturnValueSaveLocation(in, in.main_out) >= current_frame_size
    /\ (pc \in {"phase6", "done"} /\ SpillsReturnValue(in)) =>
          ReturnValueSaveLocation(in, in.main_out) < in.frame_size + in.main_out
    /\ Compiled =>
          LET a == C23_AfterCall(script)
              save == ReturnValueSaveLocation(in, in.main_out)
              spills == {i \in 1..Len(script) : IsReturnSpill(script[i])}
              reloads == {i \in 1..Len(script) : IsReturnReload(script[i])}
              moves == {i \in 1..Len(script) : IsReturnMove(script[i])}
              moved == /\ ~SpillsReturnValue(in)
                       /\ in.is_fast_native \/ in.is_critical_native
                       /\ SizeOfReturnValue(in) # 0
                       /\ JniReturnRegister(in) # MrReturnRegister(in)
          IN  /\ spills = (IF SpillsReturnValue(in) THEN {a} ELSE {})
              /\ \A i \in spills :
                    script[i] = StoreFrame(save, JniReturnRegister(in), SizeOfReturnValue(in))
              /\ Cardinality(reloads) = Cardinality(spills)
              /\ \A i \in reloads :
                    /\ script[i] = LoadFrame(MrReturnRegister(in), save + C21_Diff(in),
                                             MrSizeOfReturnValue(in))
                    /\ IsJniEndCall(script[i - 1])
                    /\ PopEndsAt(script, i + 3)
              /\ moves = (IF moved THEN {a} ELSE {})
              /\ \A i \in moves :
                    script[i] = Move(MrReturnRegister(in), JniReturnRegister(in),
                                     SizeOfReturnValue(in))
              /\ (IsNormalNative(in) /\ ~SpillsReturnValue(in)) =>
                    spills \cup reloads \cup moves = {}

\* A normal native method that returns a reference, compiled with a larger
\* out-args area for the end call: the value is stored and reloaded.
C23_Witness ==
    /\ Compiled /\ IsNormalNative(in) /\ reference_return(in)
    /\ in.end_out > in.main_out
    /\ IsReturnSpill(script[C23_AfterCall(script)])
    /\ \E i \in 1..Len(script) : IsReturnReload(script[i])

\* The other cases of the claim: the fatal check, the move between two
\* different return registers, no move between equal ones, and the normal
\* native method that returns nothing.
C23_SaveLocationChecked == pc = "fatal" /\ failure = C23_SaveFailure /\ ~in.debug
C23_Moved ==
    /\ Compiled /\ in.is_fast_native /\ ValidAttributes(in)
    /\ IsReturnMove(script[C23_AfterCall(script)])
C23_NotMoved ==
    /\ Compiled /\ in.is_critical_native /\ ValidAttributes(in)
    /\ ReturnChar(in) = "I"
    /\ ~HasOp(script, "Move")
C23_Neither == Compiled /\ IsNormalNative(in) /\ ReturnChar(in) = "V"
C23_AfterWidthFixUp ==
    /\ Compiled /\ IsNormalNative(in) /\ RequiresSmallResultTypeExtension(in)
    /\ IsReturnSpill(script[NativeCallAt(script) + 2])

-----------------------------------------------------------------------------
(* C24: the shorty of `end` and the arguments of the end call.             *)

\* The operation that passes the result in the first position of `end`.
C24_PassResult(r) ==
    IF JniInReg(r, 1) THEN Move(JniRegister(r, 1), JniReturnRegister(r), kRawPointerSize(r))
    ELSE StoreRawPtr(JniStackOffset(r, 1), JniReturnRegister(r))

\* The operations that place an argument of a runtime call.
C24_ArgumentOps ==
    {"Move", "StoreRawPtr", "CreateJObject", "Copy", "Load", "GetCurrentThread"}

\* C24: the shorty of `end` is IL for a synchronized method that returns a
\* reference, I for any other method that returns a reference and V for every
\* method that does not, synchronized or not.  In a compiled stub the end call
\* is preceded by exactly these argument operations, each to the next
\* position of `end`, which has that many: the native return register in
\* the first position iff the method returns a reference, then the unlock
\* object iff the method is synchronized, then the current thread; the call
\* goes through the register of the thread when it is in one.
C24_EndArguments ==
    LET ref == reference_return(in)
        sync == in.is_synchronized
        p1 == IF ref THEN 2 ELSE 1
        p2 == IF sync THEN p1 + 1 ELSE p1
    IN  /\ EndShorty(in) =
              (IF ref /\ sync THEN <<"I", "L">> ELSE IF ref THEN <<"I">> ELSE <<"V">>)
        /\ Compiled =>
              \A e \in {i \in 1..Len(script) : IsEndCall(script[i])} :
                  /\ e > p2 + 1
                  /\ p2 <= JniNumArgs(in, EndShorty(in))
                  /\ script[e].op = (IF JniInReg(in, p2) THEN "Call" ELSE "CallFromThread")
                  /\ JniInReg(in, p2) => script[e].x = JniRegister(in, p2)
                  /\ script[e - 1] = C16_ThreadAt(in, p2)
                  /\ sync => script[e - 2] = C19_UnlockObject(in, p1)
                  /\ ref => script[e - p2] = C24_PassResult(in)
                  /\ script[e - p2 - 1].op \notin C24_ArgumentOps

\* A synchronized instance method that returns a reference: the result in a
\* register, the unlock object and the thread on the stack.
C24_Witness ==
    /\ Compiled /\ IsNormalNative(in) /\ in.is_synchronized /\ ~in.is_static
    /\ reference_return(in) /\ in.jni_regs = 1
    /\ \E e \in 4..Len(script) :
          /\ IsJniEndCall(script[e])
          /\ script[e - 3].op = "Move"
          /\ script[e - 2].op = "CreateJObject"

\* The same claim for the other shorties of `end` and for the decode call of
\* a @FastNative method.
C24_ReferenceOnly ==
    /\ Compiled /\ IsNormalNative(in) /\ ~in.is_synchronized /\ reference_return(in)
    /\ EndShorty(in) = <<"I">>
C24_SynchronizedOnly ==
    /\ Compiled /\ IsNormalNative(in) /\ in.is_synchronized /\ ~reference_return(in)
    /\ EndShorty(in) = <<"V">> /\ in.jni_regs = 0
C24_Decode ==
    /\ Compiled /\ in.is_fast_native /\ ~in.is_synchronized
    /\ \E e \in 1..Len(script) : IsDecodeCall(script[e])

-----------------------------------------------------------------------------
(* C25: the exception poll and the suspend check of a @FastNative method.  *)

AfterDecode == "pJniDecodeReferenceResult" \in called
C25_BothPolled == <<"ExceptionPoll", "SuspendCheck">>
C25_SuspendPoints == {"ExceptionPoll", "SuspendCheck", "Call", "CallFromThread"}

\* C25: on every path of the stub of a @FastNative method that returns a
\* reference, the exception poll is executed after the native call with
\* nothing polled before it, the suspend check after the exception poll, and
\* both before Call(pJniDecodeReferenceResult); from that call to the
\* RemoveFrame the stub executes no exception poll, no suspend check and no
\* call, so at the RemoveFrame each of the two has been executed once.  In
\* the stub of a @FastNative method that does not return a reference the
\* exception poll follows the DecreaseFrameSize of the epilogue, the suspend
\* check follows the exception poll, and the RemoveFrame follows the resume
\* label of the suspend check.
C25_FastNativePolls ==
    (xst = "running" /\ in.is_fast_native /\ ~in.is_critical_native) =>
        LET o == script[xpc]
        IN  IF reference_return(in)
            THEN /\ o.op = "ExceptionPoll" =>
                       AfterNativeCall /\ ~AfterDecode /\ polled = <<>>
                 /\ o.op = "SuspendCheck" =>
                       AfterNativeCall /\ ~AfterDecode /\ polled = <<"ExceptionPoll">>
                 /\ IsDecodeCall(o) => AfterNativeCall /\ polled = C25_BothPolled
                 /\ AfterDecode => o.op \notin C25_SuspendPoints
                 /\ o.op = "RemoveFrame" => AfterDecode /\ polled = C25_BothPolled
            ELSE /\ ~AfterDecode
                 /\ o.op = "ExceptionPoll" =>
                       /\ AfterNativeCall /\ polled = <<>>
                       /\ script[xpc - 1] = DecreaseFrameSize(in.main_out)
                 /\ o.op = "SuspendCheck" =>
                       /\ polled = <<"ExceptionPoll">>
                       /\ script[xpc - 1].op = "ExceptionPoll"
                 /\ o.op = "RemoveFrame" =>
                       /\ polled = C25_BothPolled
                       /\ script[xpc - 1] = Bind("suspend_check_resume")
                       /\ script[xpc - 2].op = "SuspendCheck"

\* The execution of a @FastNative method that returns a reference stands at
\* the RemoveFrame, after the suspend check went through its slow path before
\* the reference was decoded.
C25_Witness ==
    /\ xst = "running" /\ in.is_fast_native /\ ValidAttributes(in) /\ reference_return(in)
    /\ script[xpc].op = "RemoveFrame"
    /\ AfterDecode
    /\ "suspend_check_slow_path" \in via
    /\ polled = C25_BothPolled

\* The same claim for a @FastNative method that does not return a reference.
C25_LatePolls ==
    /\ xst = "running" /\ in.is_fast_native /\ ValidAttributes(in) /\ ~reference_return(in)
    /\ script[xpc].op = "RemoveFrame"
    /\ "suspend_check_slow_path" \in via
    /\ in.main_out > 0

-----------------------------------------------------------------------------
(* C26: the read barrier for the declaring class of a static method.       *)

C26_Slow == "jclass_read_barrier_slow_path"
C26_Return == "jclass_read_barrier_return"
C26_Emitted(r) == kUseReadBarrier(r) /\ r.is_static /\ ~r.is_critical_native

\* The operations of a stub that belong to the read barrier.
IsReadBarrierOp(o) ==
    \/ o.op \in {"TestGcMarking", "TestMarkBit"}
    \/ o.op \in {"Bind", "Jump"} /\ o.z \in {C26_Slow, C26_Return}
    \/ o.op = "CallFromThread" /\ o.z = "pReadBarrierJni"

\* The slow-path block as the claim describes it.
C26_Block(r) ==
    <<Bind(C26_Slow)>>
    \o (IF kUseBakerReadBarrier(r)
        THEN << LoadMember(CalleeSaveScratchRegisters[1], MrMethodRegister,
                           "DeclaringClassOffset", kObjectReferenceSize),
                TestMarkBit(CalleeSaveScratchRegisters[1], C26_Return) >>
        ELSE <<>>)
    \o <<CallFromThread("pReadBarrierJni"), Jump(C26_Return)>>

\* The first and the last index of the slow-path block in a compiled stub.
C26_First == LabelPos(script, C26_Slow)
C26_Last == C26_First + Len(C26_Block(in)) - 1

C26_Shape ==
    Compiled =>
        IF C26_Emitted(in)
        THEN /\ script[1].op = "BuildFrame"
             /\ script[2] = TestGcMarking(C26_Slow)
             /\ script[3] = Bind(C26_Return)
             /\ script[4] = StoreStackPointerToThread("TopOfManagedStackOffset")
             /\ C26_Last <= Len(script)
             /\ SubSeq(script, C26_First, C26_Last) = C26_Block(in)
             /\ Count(script, IsReadBarrierOp) = 2 + Count(C26_Block(in), IsReadBarrierOp)
        ELSE Count(script, IsReadBarrierOp) = 0

C26_Step ==
    (xst = "running" /\ C26_Emitted(in)) =>
        /\ xpc \in C26_First..C26_Last =>
              /\ xst' = "running"
              /\ xpc' \in (C26_First + 1)..C26_Last \/ xpc' = LabelPos(script, C26_Return)
              /\ xpc' = LabelPos(script, C26_Return) =>
                    script[xpc].op \in {"TestMarkBit", "Jump"}
              /\ script[xpc].op = "Jump" => "pReadBarrierJni" \in called
        /\ (xpc' \in C26_First..C26_Last /\ xpc \notin C26_First..C26_Last) =>
              /\ script[xpc].op = "TestGcMarking"
              /\ xpc' = C26_First

\* C26: a compiled stub holds the read barrier check and the slow-path block
\* when read barriers are enabled and the method is static and not
\* @CriticalNative, and no operation of either otherwise.  The check is
\* TestGcMarking(jclass_read_barrier_slow_path) and
\* Bind(jclass_read_barrier_return) between BuildFrame and
\* StoreStackPointerToThread.  The execution enters the block from the
\* TestGcMarking only, at its first operation, and every step it takes in
\* the block stays in the block or goes to jclass_read_barrier_return: from
\* the TestMarkBit of the Baker variant, or from the Jump after
\* CallFromThread(pReadBarrierJni) has been executed.
C26_ReadBarrier == []C26_Shape /\ [][C26_Step]_vars

\* The execution stands at the Jump back of the Baker slow path: the class
\* was not marked and the entrypoint has been called.
C26_Witness ==
    /\ xst = "running" /\ C26_Emitted(in) /\ kUseBakerReadBarrier(in)
    /\ script[xpc] = Jump(C26_Return)
    /\ "pReadBarrierJni" \in called

\* The other cases of the claim: the fast return of the Baker variant, the
\* block without it, and a method that is not static compiled with read
\* barriers.
C26_FastReturn ==
    /\ xst = "running" /\ C26_Emitted(in) /\ kUseBakerReadBarrier(in)
    /\ C26_Return \in via
    /\ "pReadBarrierJni" \notin called
    /\ script[xpc].op = "StoreStackPointerToThread"
C26_NotBaker ==
    /\ xst = "running" /\ C26_Emitted(in) /\ ~kUseBakerReadBarrier(in)
    /\ script[xpc] = Jump(C26_Return)
C26_NotStatic == Compiled /\ kUseReadBarrier(in) /\ ~in.is_static
C26_Critical == Compiled /\ kUseReadBarrier(in) /\ in.is_critical_native


-----------------------------------------------------------------------------
(* C27: the width fix-up of the return value.                              *)

C27_WidthChecks ==
    { "DCHECK(main_jni_conv->HasSmallReturnType())",
      "CHECK(!is_critical_native || !UseTailCall()) line 529",
      "CHECK(GetReturnType() == kPrimBoolean || GetReturnType() == kPrimChar)" }
\* The native call is in the script.
C27_Called == \E i \in 1..Len(script) : IsNativeCall(script[i])
\* The fix-up of a return type: the operation and the size in bytes.
C27_FixUp(c) ==
    CASE c = "B" -> [op |-> "SignExtend", sz |-> 1]
      [] c = "S" -> [op |-> "SignExtend", sz |-> 2]
      [] c = "Z" -> [op |-> "ZeroExtend", sz |-> 1]
      [] c = "C" -> [op |-> "ZeroExtend", sz |-> 2]
C27_IsFixUpOf(o, r) ==
    /\ o.op = C27_FixUp(ReturnChar(r)).op
    /\ o.sz = C27_FixUp(ReturnChar(r)).sz
    /\ o.x = JniReturnRegister(r)

\* C27: once the native call is emitted, the script holds a width fix-up iff
\* the convention requires the small result extension; it is then the one
\* operation right after the native call, SignExtend of the native return
\* register for byte and short and ZeroExtend for boolean and char, of size 1
\* for byte and boolean and 2 for short and char.  A request that requires
\* the extension with any other return type never gets its native call into
\* the script: it ends in a fatal check, one of lines 528-535 when its
\* attributes are valid.
C27_WidthFixUp ==
    /\ ~C27_Called => Count(script, IsWidthFixUp) = 0
    /\ C27_Called =>
          /\ Count(script, IsWidthFixUp) = IF RequiresSmallResultTypeExtension(in) THEN 1 ELSE 0
          /\ RequiresSmallResultTypeExtension(in) =>
                /\ HasSmallReturnType(in)
                /\ NativeCallAt(script) < Len(script)
                /\ C27_IsFixUpOf(script[NativeCallAt(script) + 1], in)
    /\ RequiresSmallResultTypeExtension(in) /\ ~HasSmallReturnType(in) /\ pc \in {"done", "fatal"}
          => pc = "fatal" /\ (ValidAttributes(in) => failure \in C27_WidthChecks)
C27_Witness ==
    /\ Compiled /\ ReturnChar(in) = "S" /\ RequiresSmallResultTypeExtension(in)
    /\ script[NativeCallAt(script) + 1] = SignExtend("ret0", 2)
C27_Boolean ==
    /\ Compiled /\ ReturnChar(in) = "Z" /\ RequiresSmallResultTypeExtension(in)
    /\ script[NativeCallAt(script) + 1] = ZeroExtend("ret0", 1)
C27_NoFixUp ==
    /\ Compiled /\ ReturnChar(in) = "B" /\ ~RequiresSmallResultTypeExtension(in)
    /\ ~IsWidthFixUp(script[NativeCallAt(script) + 1])
C27_OtherType ==
    /\ pc = "fatal" /\ ReturnChar(in) = "I" /\ RequiresSmallResultTypeExtension(in)
    /\ failure = "CHECK(GetReturnType() == kPrimBoolean || GetReturnType() == kPrimChar)"
C27_OtherTypeDebug ==
    /\ pc = "fatal" /\ ReturnChar(in) = "V" /\ RequiresSmallResultTypeExtension(in)
    /\ failure = "DCHECK(main_jni_conv->HasSmallReturnType())"


-----------------------------------------------------------------------------
(* C28: the stack depth at the stores of the stack pointer and at the      *)
(* suspend check entrypoint.                                               *)

IsStackPointerStore(o) == o.op = "StoreStackPointerToThread"
IsTestSuspendCall(o) == o.op = "CallFromThread" /\ o.z = "pTestSuspend"
IsResume(o) == o.op \in {"Bind", "Jump"} /\ o.z = "suspend_check_resume"

\* C28: whenever the execution of a stub stands at a StoreStackPointerToThread
\* (the one of phase 1 or the one of the suspend-check slow path) or at
\* CallFromThread(pTestSuspend), the stack depth is the managed frame size,
\* whatever the size of the out-args area; and whenever it stands at the Jump
\* to suspend_check_resume or at the label itself, the stack depth is the
\* one at which the SuspendCheck ran.
C28_ManagedFrameDepth ==
    xst = "running" =>
        LET o == script[xpc]
        IN  /\ (IsStackPointerStore(o) \/ IsTestSuspendCall(o)) =>
                   /\ depth = in.frame_size
                   /\ depth = script[1].n
            /\ IsResume(o) => depth = check_depth
\* The second store, with a non-empty out-args area.
C28_Witness ==
    /\ xst = "running" /\ ValidAttributes(in) /\ in.main_out = OutArgUnit
    /\ IsStackPointerStore(script[xpc])
    /\ stack_top = <<"store", "suspend">>
    /\ check_depth = in.frame_size + OutArgUnit
C28_SecondStoreNoOutArgs ==
    /\ xst = "running" /\ ValidAttributes(in) /\ in.main_out = 0
    /\ IsStackPointerStore(script[xpc])
    /\ stack_top = <<"store", "suspend">>
C28_FirstStore ==
    /\ xst = "running" /\ ValidAttributes(in) /\ IsNormalNative(in)
    /\ IsStackPointerStore(script[xpc])
    /\ stack_top = <<>>
C28_ResumeFromSlowPath ==
    /\ xst = "running" /\ ValidAttributes(in) /\ in.main_out = OutArgUnit
    /\ reference_return(in)
    /\ script[xpc] = Bind("suspend_check_resume")
    /\ "suspend_check_slow_path" \in via
    /\ depth = in.frame_size + OutArgUnit
C28_NoReferenceSuspend ==
    /\ xst = "running" /\ ValidAttributes(in) /\ in.main_out = OutArgUnit
    /\ ~reference_return(in)
    /\ IsTestSuspendCall(script[xpc])


-----------------------------------------------------------------------------
(* C29: the polls and the labels of a stub.                                *)

\* The positions of the script that branch or jump to a label, and the
\* positions that bind one.
C29_Targeting(s, label) ==
    {i \in 1..Len(s) : (IsBranch(s[i]) \/ IsLabelJump(s[i])) /\ s[i].z = label}
C29_Binding(s, label) == {i \in 1..Len(s) : s[i].op = "Bind" /\ s[i].z = label}
C29_Labels ==
    { "jclass_read_barrier_slow_path", "jclass_read_barrier_return",
      "suspend_check_slow_path", "suspend_check_resume",
      "monitor_enter_exception_slow_path", "exception_slow_path" }
C29_Polls(s) == {i \in 1..Len(s) : s[i] = ExceptionPoll("exception_slow_path")}
C29_Checks(s) == {i \in 1..Len(s) : s[i].op = "SuspendCheck"}

\* Every label bound in s but the ones of `but` is one of the six labels of
\* the source and the target of a branch or jump of s.
C29_BoundAreTargeted(s, but) ==
    \A i \in 1..Len(s) :
        (s[i].op = "Bind" /\ s[i].z \notin but) =>
            /\ s[i].z \in C29_Labels
            /\ C29_Targeting(s, s[i].z) # {}
\* The polls of s are those of the request r, and every label that a branch
\* or jump of s targets is bound exactly once in s.
C29_PollsAndTargets(s, r) ==
    /\ Cardinality(C29_Polls(s)) = IF r.is_critical_native THEN 0 ELSE 1
    /\ Cardinality(C29_Checks(s)) = IF r.is_fast_native THEN 1 ELSE 0
    /\ \A i \in 1..Len(s) :
          (IsBranch(s[i]) \/ IsLabelJump(s[i])) =>
              Cardinality(C29_Binding(s, s[i].z)) = 1

\* The statement of C29 over every tuple of valid attributes: a @FastNative
\* synchronized method, which a release build compiles, is one of them.
C29_AsStated ==
    (Compiled /\ ValidAttributes(in)) =>
        /\ C29_PollsAndTargets(script, in)
        /\ C29_BoundAreTargeted(script, {})

\* C29: the stub of a method with valid attributes holds one
\* ExceptionPoll(exception_slow_path) when the method is not @CriticalNative
\* and none when it is, one SuspendCheck when the method is @FastNative and
\* none when it is not, and every label that a TestGcMarking, TestMarkBit,
\* Jump, ExceptionPoll or SuspendCheck of the stub targets is bound exactly
\* once in it.  Every label bound in it is one of the six labels of the
\* source and the target of at least one of these operations, unless the
\* method is @FastNative and synchronized at once: its stub binds
\* monitor_enter_exception_slow_path once and no operation targets it.
C29_PollsAndLabels ==
    (Compiled /\ ValidAttributes(in)) =>
        /\ C29_PollsAndTargets(script, in)
        /\ IF in.is_fast_native /\ in.is_synchronized
           THEN /\ C29_BoundAreTargeted(script, {"monitor_enter_exception_slow_path"})
                /\ Cardinality(C29_Binding(script, "monitor_enter_exception_slow_path")) = 1
                /\ C29_Targeting(script, "monitor_enter_exception_slow_path") = {}
           ELSE C29_BoundAreTargeted(script, {})
\* A stub that binds and targets five of the six labels: static @FastNative
\* with read barriers.
C29_Witness ==
    /\ Compiled /\ ValidAttributes(in) /\ in.is_fast_native /\ in.is_static
    /\ kUseBakerReadBarrier(in)
    /\ Cardinality({script[i].z : i \in {j \in 1..Len(script) : script[j].op = "Bind"}}) = 5
    /\ Cardinality(C29_Targeting(script, "jclass_read_barrier_return")) = 2
C29_FastSynchronized ==
    /\ Compiled /\ ValidAttributes(in) /\ in.is_synchronized /\ in.is_fast_native
    /\ C29_Binding(script, "monitor_enter_exception_slow_path") # {}
    /\ Cardinality(C29_Polls(script)) = 1
C29_Synchronized ==
    /\ Compiled /\ ValidAttributes(in) /\ in.is_synchronized /\ ~in.is_fast_native
    /\ C29_Binding(script, "monitor_enter_exception_slow_path") # {}
    /\ Cardinality(C29_Polls(script)) = 1
C29_Critical ==
    /\ Compiled /\ ValidAttributes(in) /\ in.is_critical_native
    /\ \A i \in 1..Len(script) : script[i].op # "Bind" /\ ~IsBranch(script[i])
C29_EarlyPoll ==
    /\ Compiled /\ ValidAttributes(in) /\ in.is_fast_native /\ reference_return(in)
    /\ Cardinality(C29_Polls(script)) = 1


-----------------------------------------------------------------------------
(* C30: the callee-save scratch registers between their definition and     *)
(* their last use.                                                         *)

\* Lines 425-433: the operation that puts the method pointer in
\* callee_save_temp.
IsMaterialization(o) ==
    /\ o.x = callee_save_temp
    /\ o.op = "Move" \/ (o.op = "Load" /\ o.y = "SP")
\* The execution stands before the native call and the method pointer was
\* put in callee_save_temp.
C30_Materialized ==
    /\ xpc <= NativeCallAt(script)
    /\ \E i \in 1..(xpc - 1) : IsMaterialization(script[i])
C30_NativeCalled == "EntryPointFromJniOffset" \in called
\* The execution stands at the first operation of PopLocalReferenceFrame.
C30_AtPop == xpc + 2 <= Len(script) /\ PopEndsAt(script, xpc + 2)

\* C30: in the execution of a stub of a method that is not @CriticalNative no
\* operation writes jni_env_reg while it holds JNIEnv* and the local
\* reference frame is not popped yet, and none writes saved_cookie_reg from
\* the load of the cookie in PushLocalReferenceFrame to the end of
\* PopLocalReferenceFrame, on the main path and on the exception slow path;
\* no operation from the one that puts the method pointer in callee_save_temp
\* to the native call writes callee_save_temp, which is the base of that
\* call; and every PopLocalReferenceFrame, whose first operation loads into
\* callee_save_temp, starts after the native call.
C30_ScratchRegisters ==
    (xst = "running" /\ ~in.is_critical_native) =>
        LET o == script[xpc]
        IN  /\ jni_env_reg \in RegistersWritten(o) =>
                   regs[jni_env_reg] # EnvPointer \/ pops >= 1
            /\ saved_cookie_reg \in RegistersWritten(o) =>
                   regs[saved_cookie_reg] = Unknown \/ pops >= 1
            /\ (pushes = 1 /\ pops = 0) =>
                   /\ regs[jni_env_reg] = EnvPointer
                   /\ regs[saved_cookie_reg] = Word(world.cookie)
            /\ C30_Materialized =>
                   /\ callee_save_temp \notin RegistersWritten(o)
                   /\ IsNativeCall(o) => o.x = callee_save_temp
            /\ C30_AtPop =>
                   /\ C30_NativeCalled
                   /\ callee_save_temp \in RegistersWritten(o)
\* The pop of the exception slow path starts, in a stub whose Baker read
\* barrier slow path wrote the register of jni_env_reg before the JNIEnv
\* load.
C30_Witness ==
    /\ xst = "running" /\ ValidAttributes(in) /\ in.is_fast_native
    /\ kUseBakerReadBarrier(in)
    /\ "jclass_read_barrier_slow_path" \in via
    /\ "exception_slow_path" \in via
    /\ C30_AtPop
    /\ regs[jni_env_reg] = EnvPointer
C30_MainPathPop ==
    /\ xst = "running" /\ ValidAttributes(in) /\ IsNormalNative(in)
    /\ C30_AtPop /\ via = {}
C30_MaterializedByLoad ==
    /\ xst = "running" /\ ValidAttributes(in) /\ IsNormalNative(in)
    /\ C30_Materialized /\ IsNativeCall(script[xpc])
    /\ regs[callee_save_temp] = Unknown
C30_MaterializedByMove ==
    /\ xst = "running" /\ ValidAttributes(in) /\ in.is_fast_native
    /\ C30_Materialized /\ IsNativeCall(script[xpc])
C30_NotMaterialized ==
    /\ xst = "running" /\ ValidAttributes(in) /\ ~in.is_critical_native
    /\ IsNativeCall(script[xpc]) /\ ~C30_Materialized
    /\ regs[callee_save_temp] = Word(world.segment_state)
C30_BakerWritesScratch ==
    /\ xst = "running" /\ ValidAttributes(in)
    /\ jni_env_reg \in RegistersWritten(script[xpc])
    /\ script[xpc].op = "Load"


-----------------------------------------------------------------------------
(* C31: the read barrier slow path runs before the method register and     *)
(* the JNIEnv* register are needed.                                        *)

\* The last operation of the read barrier slow path: its Jump back.
C31_Last ==
    CHOOSE j \in C26_First..Len(script) :
        /\ script[j] = Jump(C26_Return)
        /\ \A k \in C26_First..(j - 1) : script[k] # Jump(C26_Return)
\* The execution stands in the read barrier slow path.
C31_InBlock ==
    /\ xst = "running" /\ IsBound(script, C26_Slow)
    /\ xpc \in C26_First..C31_Last
\* The execution is back on the label of the main path after the slow path.
C31_Returned ==
    /\ xst = "running" /\ C26_Slow \in via
    /\ script[xpc] = Bind(C26_Return)

\* C31: in a compiled stub with a read barrier slow path the one operation
\* that targets the slow path is the TestGcMarking of phase 1, the label of
\* the return is bound right after it, and every branch and jump of the slow
\* path targets that label, its last operation being the Jump.  While the
\* execution stands in the slow path nothing but the read barrier entrypoint
\* has been called and no other slow path was entered, the incoming method
\* register holds the method pointer, JNIEnv* is not loaded and no local
\* reference frame is pushed; the Load of the declaring class reads through
\* the incoming method register into callee-save scratch register 0, the
\* register of jni_env_reg, and no other register is written there.  Back
\* on the label of the main path the method register still holds the method
\* pointer.
C31_ReadBarrierFirst ==
    /\ (Compiled /\ IsBound(script, C26_Slow)) =>
          /\ {i \in 1..Len(script) : (IsBranch(script[i]) \/ IsLabelJump(script[i]))
                                        /\ script[i].z = C26_Slow} = {2}
          /\ script[2].op = "TestGcMarking"
          /\ script[3] = Bind(C26_Return)
          /\ \E j \in C26_First..Len(script) : script[j] = Jump(C26_Return)
          /\ \A k \in C26_First..C31_Last :
                /\ ~IsExit(script[k])
                /\ (IsBranch(script[k]) \/ IsLabelJump(script[k])) => script[k].z = C26_Return
                /\ script[k].op = "Bind" => k = C26_First
    /\ C31_InBlock =>
          /\ via = {C26_Slow}
          /\ called \subseteq {"pReadBarrierJni"}
          /\ stack_top = <<>> /\ pushes = 0
          /\ regs[MrMethodRegister] = MethodPointer
          /\ regs[jni_env_reg] # EnvPointer
          /\ RegistersWritten(script[xpc]) \subseteq {CalleeSaveScratchRegisters[1]}
          /\ script[xpc].op = "Load" =>
                /\ script[xpc].y = MrMethodRegister
                /\ script[xpc].x = jni_env_reg
    /\ C31_Returned =>
          /\ regs[MrMethodRegister] = MethodPointer
          /\ regs[jni_env_reg] # EnvPointer
          /\ called \subseteq {"pReadBarrierJni"}
\* The Load of the declaring class of the Baker slow path is about to run.
C31_Witness ==
    /\ C31_InBlock /\ ValidAttributes(in) /\ kUseBakerReadBarrier(in)
    /\ script[xpc].op = "Load"
    /\ regs[MrMethodRegister] = MethodPointer
C31_EntrypointCall ==
    /\ C31_InBlock /\ ValidAttributes(in) /\ ~kUseBakerReadBarrier(in)
    /\ script[xpc] = CallFromThread("pReadBarrierJni")
C31_BackAfterCall ==
    /\ C31_Returned /\ ValidAttributes(in) /\ called = {"pReadBarrierJni"}
C31_BackAfterMarkBit ==
    /\ C31_Returned /\ ValidAttributes(in) /\ called = {}
\* JNIEnv* is loaded into the register that the slow path used as temporary.
C31_EnvLoadedLater ==
    /\ xst = "running" /\ ValidAttributes(in) /\ kUseBakerReadBarrier(in)
    /\ C26_Slow \in via
    /\ regs[jni_env_reg] = EnvPointer
\* The method register is clobbered later on the main path.
C31_ClobberedLater ==
    /\ xst = "running" /\ ValidAttributes(in) /\ C26_Slow \in via
    /\ regs[MrMethodRegister] = Unknown


-----------------------------------------------------------------------------
(* C32: the iterators of `main` and `end` stay on existing parameters.     *)

\* The position of the native parameter that the operation o writes: the
\* index of its register, or the one of its stack slot.
C32_PlacedPos(r, o) ==
    IF o.x # "SP"
    THEN CHOOSE p \in 1..Len(JniArgRegs) : JniArgRegs[p] = o.x
    ELSE (o.n \div kRawPointerSize(r)) + r.jni_regs + 1
C32_Places(o) ==
    /\ o.op \in C24_ArgumentOps
    /\ o.x = "SP" \/ o.x \in {JniArgRegs[p] : p \in 1..Len(JniArgRegs)}
\* The k operations before the call at e place the positions 1..k, in this
\* order, the operation before them places nothing, and the convention has
\* params parameters.
C32_Placed(r, s, e, k, params) ==
    /\ e > k
    /\ k <= params
    /\ \A j \in 1..k :
          /\ C32_Places(s[e - k - 1 + j])
          /\ C32_PlacedPos(r, s[e - k - 1 + j]) = j
    /\ e - k - 1 >= 1 => ~C32_Places(s[e - k - 1])
C32_StartArgs(r) == (IF r.is_synchronized THEN 1 ELSE 0) + 1
C32_EndArgs(r) ==
    (IF reference_return(r) THEN 1 ELSE 0) + (IF r.is_synchronized THEN 1 ELSE 0) + 1

\* C32: in the compiled stub of a method that is not @CriticalNative, the
\* operations before the JniMethodStart call place the lock object, if the
\* method is synchronized, and the current thread in the positions 1, 2 of
\* `main`, which has the two JNI parameters and those of the method's
\* shorty; the operations before the JniMethodEnd or JniDecodeReferenceResult
\* call place the result, if it is a reference, the unlock object, if the
\* method is synchronized, and the current thread in the positions 1, 2, 3 of
\* `end`, which has the two JNI parameters and those of the shorty V, I or
\* IL: each placement is on a parameter the convention has, and the iterator
\* is advanced once less than arguments are placed.
C32_IteratorsInRange ==
    (Compiled /\ ~in.is_critical_native) =>
        \A e \in 1..Len(script) :
            /\ IsJniStartCall(script[e]) =>
                   C32_Placed(in, script, e, C32_StartArgs(in), JniNumArgs(in, in.shorty))
            /\ IsEndCall(script[e]) =>
                   C32_Placed(in, script, e, C32_EndArgs(in), JniNumArgs(in, EndShorty(in)))
\* Three arguments to `end`, which has three parameters, on the stack.
C32_Witness ==
    /\ Compiled /\ ValidAttributes(in) /\ IsNormalNative(in)
    /\ reference_return(in) /\ in.is_synchronized /\ in.jni_regs = 0
    /\ \E e \in 1..Len(script) :
          /\ IsEndCall(script[e])
          /\ C32_PlacedPos(in, script[e - 1]) = 3
          /\ JniNumArgs(in, EndShorty(in)) = 3
C32_SynchronizedVoid ==
    /\ Compiled /\ ValidAttributes(in) /\ IsNormalNative(in)
    /\ ~reference_return(in) /\ in.is_synchronized /\ in.jni_regs > 0
    /\ \E e \in 1..Len(script) :
          /\ IsEndCall(script[e])
          /\ C32_PlacedPos(in, script[e - 1]) = 2
          /\ JniNumArgs(in, EndShorty(in)) = 2
C32_StartSynchronized ==
    /\ Compiled /\ ValidAttributes(in) /\ in.is_synchronized /\ Len(in.shorty) = 1
    /\ \E e \in 1..Len(script) :
          /\ IsJniStartCall(script[e])
          /\ C32_PlacedPos(in, script[e - 1]) = 2
          /\ JniNumArgs(in, in.shorty) = 2
C32_Decode ==
    /\ Compiled /\ ValidAttributes(in) /\ in.is_fast_native /\ ~in.is_synchronized
    /\ \E e \in 1..Len(script) :
          /\ IsDecodeCall(script[e])
          /\ C32_PlacedPos(in, script[e - 1]) = 2


-----------------------------------------------------------------------------
(* C33: a method without the native bit is rejected first.                 *)

C33_Rejected ==
    /\ pc = "fatal" /\ failure = "CHECK(is_native)"
    /\ script = <<>> /\ cfa_checks = <<>> /\ xst = "idle"
\* What holds of a request without the native bit in every state.
C33_Never ==
    ~in.is_native =>
        /\ pc \in {"start", "fatal"}
        /\ pc = "fatal" => C33_Rejected
        /\ script = <<>>
\* The first step of a request without the native bit.
C33_Step ==
    (~in.is_native /\ pc = "start") =>
        /\ pc' = "fatal"
        /\ failure' = "CHECK(is_native)"
        /\ script' = <<>>

\* C33: a compile request without the native bit ends in CHECK(is_native) at
\* its first step, in a debug build and in a release build, whatever its
\* other access flags and its shorty are: no check on these fires instead,
\* the step that creates the calling conventions and the assembler is never
\* reached, nothing is emitted, and the compile never completes.
C33_NonNativeRejected == []C33_Never /\ [][C33_Step]_vars
\* A release build rejected a non-native request whose other flags are those
\* of a valid method.
C33_Witness ==
    /\ ~in.is_native /\ ~in.debug /\ ValidAttributes(in)
    /\ C33_Rejected
\* A debug build rejected a non-native request for the native bit, though
\* its other flags fail the debug-build validation too.
C33_DebugInvalid ==
    /\ ~in.is_native /\ in.debug
    /\ in.is_fast_native /\ in.is_critical_native
    /\ C33_Rejected
C33_DebugReferenceShorty ==
    /\ ~in.is_native /\ in.debug
    /\ in.is_critical_native /\ in.is_static /\ ~in.is_synchronized /\ ~in.is_fast_native
    /\ ReturnChar(in) = "L"
    /\ C33_Rejected
\* The same flags with the native bit compile.
C33_NativeCompiles ==
    /\ in.is_native /\ ~in.debug /\ ValidAttributes(in) /\ Compiled

====
